---- MODULE Spec2Model ----
(***************************************************************************)
(* Model of the file.sh browser client (chunked AES-GCM encryption, the    *)
(* chunk splitter, the upload/resume state machine, the download and       *)
(* reassembly path) and of the part of the Go backend it talks to.         *)
(*                                                                         *)
(* Sizes are counted in blocks: one block stands for a run of bytes, the   *)
(* IV and the authentication tag are one block each, and the chunk size    *)
(* and the thresholds inside encryptFile are a few blocks.  The order of   *)
(* the sizes is the order they have in the source:                         *)
(*   IV, tag  <  chunk size  <  segment size  <  streaming threshold.      *)
(*                                                                         *)
(* A blob is a sequence of blocks, a block is a tuple of naturals.  A      *)
(* block of length 1 is a data block <<v>>; a longer block is an           *)
(* authentication tag.  AES-GCM is the ideal AEAD: the ciphertext is the   *)
(* plaintext added to a keystream that depends on (key, iv, position), and *)
(* the tag is an injective function of (key, iv, ciphertext), so that a    *)
(* tag verifies only for the ciphertext it was computed for.               *)
(*                                                                         *)
(* Three parts share the module.  The splitter on its own (SpecSplit) and  *)
(* the encrypt -> split -> decrypt pipeline (SpecCrypto) take every blob   *)
(* up to a bound.  The transfer part (SpecTransfer, SpecUpload, SpecPause) *)
(* is the sender's page with its handlers and upload workers, IndexedDB,   *)
(* the backend's chunk store and the receiver opening the share link; a    *)
(* step of it is the code between two awaits that wait for the network.    *)
(* The backend's handlers with a storage that can fail (SpecBackend) and   *)
(* the calls of UploadStore running concurrently (SpecStore) are modelled  *)
(* on their own.                                                           *)
(***************************************************************************)
EXTENDS Integers, Sequences, FiniteSets, Bags, TLC

VARIABLES
  spc, sBlob, sSize, sChunks,                       \* the chunk splitter on its own
  cpc, cFile, cKey, cEnc, cChunks, cTampered, cOut, \* encrypt -> split -> decrypt pipeline
  ui,        \* useUploadManager's React state
  run,       \* the handler call in progress (handleUpload / handleResumeUpload)
  uf,        \* the locals of the uploadFile call in progress
  workers,   \* the processNextChunk workers of that call and their requests
  idb,       \* IndexedDB: the 'upload-state' and 'chunk-state' stores
  local,     \* localStorage: file-metadata-<batchId>
  server,    \* the backend: batches, stored chunk objects, requests received
  rng,       \* what the random sources have handed out: keys, IVs, AEAD calls
  hist,      \* history: the files selected, what a resume found and sent
  rx,        \* the receiver's page: useDownloadManager's React state
  be,        \* the backend's handlers on their own: object storage, the call in progress
  st         \* UploadStore on its own: the two IndexedDB stores, the clock, calls in progress

splitVars  == <<spc, sBlob, sSize, sChunks>>
cryptoVars == <<cpc, cFile, cKey, cEnc, cChunks, cTampered, cOut>>
transferVars == <<ui, run, uf, workers, idb, local, server, rng, hist, rx>>
serviceVars == <<be, st>>
vars == <<splitVars, cryptoVars, transferVars, serviceVars>>
outsideSplit    == <<cryptoVars, transferVars, serviceVars>>  \* what the splitter on its own leaves alone
outsideCrypto   == <<splitVars, transferVars, serviceVars>>   \* what the encryption pipeline leaves alone
outsideTransfer == <<splitVars, cryptoVars, serviceVars>>     \* what upload and download leave alone
outsideBackend  == <<splitVars, cryptoVars, transferVars, st>> \* what the backend's handlers leave alone
outsideStore    == <<splitVars, cryptoVars, transferVars, be>> \* what UploadStore's calls leave alone

-----------------------------------------------------------------------------
(* Bounds                                                                   *)
MaxFileLen   == 9     \* longest plaintext, in blocks
MaxBlobLen   == 5     \* longest blob handed to the splitter on its own
MaxChunkSize == 4     \* largest chunk size handed to the splitter on its own
NumKeys      == 2     \* keys 1..NumKeys
NumIvs       == 2     \* IV values 1..NumIvs
MaxFiles     == 2     \* files selected for one batch
MaxFailures  == 2     \* chunk requests that fail (server error, network, timeout)
MaxPauses    == 1     \* clicks on Pause
MaxRestarts  == 1     \* page reloads
MaxEncrypts  == 3     \* encryptFile calls
MaxBatches   == 1     \* clicks on Upload

(* Program constants, in blocks                                             *)
ByteMod            == 2   \* a plaintext or ciphertext block holds 0..ByteMod-1
IV_LENGTH          == 1   \* 12 bytes
AUTH_TAG_SIZE      == 1   \* the 16 bytes the fallbacks trim: the AES-GCM tag
CHUNK_SIZE         == 3   \* 5 MB transport chunk
LARGE_FILE_LIMIT   == 6   \* 25 MB: above it encryptLargeFile
CHUNK_READ_SIZE    == 4   \* 50 MB read segment of encryptLargeFile
STREAMING_LIMIT    == 8   \* 500 MB: above it encryptStreamingLargeFile
SEGMENT_SIZE       == 5   \* 100 MB segment of encryptStreamingLargeFile
DECRYPT_CHUNK_SIZE == 3   \* 5 MB slice of decryptLargeFile
DECRYPT_TEST_SIZE  == 1   \* 1 MB test slice of decryptLargeFile
MAX_PARALLEL_UPLOADS == 3 \* the maxParallelUploads the Uploader passes
MAX_RETRIES        == 3   \* attempts per chunk inside uploadFile

-----------------------------------------------------------------------------
(* Blobs                                                                    *)
Min(a, b) == IF a < b THEN a ELSE b
Max(a, b) == IF a > b THEN a ELSE b
CeilDiv(a, b) == (a + b - 1) \div b          \* Math.ceil(a / b), a >= 0, b > 0

DataBlock(v) == <<v>>
IsData(b) == Len(b) = 1
DataBlocks == {DataBlock(v) : v \in 0..(ByteMod - 1)}

\* Blob.slice(start, end) / Uint8Array.slice(start, end): 0-based, end exclusive,
\* both clamped to the length
Slice(b, start, end) ==
  SubSeq(b, Min(start, Len(b)) + 1, Min(end, Len(b)))

RECURSIVE Concat(_)
Concat(parts) ==
  IF Len(parts) = 0 THEN <<>> ELSE Head(parts) \o Concat(Tail(parts))

BlobsUpTo(n) == UNION {[1..k -> DataBlocks] : k \in 0..n}

-----------------------------------------------------------------------------
(* The chunk splitter                                                       *)
prepareFileChunks_OffByOne(file, chunkSize) ==
  LET totalChunks == Len(file) \div chunkSize
  IN  [i \in 1..totalChunks |->
         Slice(file, (i - 1) * chunkSize, Min(Len(file), (i - 1) * chunkSize + chunkSize))]

prepareFileChunks_EmptyTail(file, chunkSize) ==
  LET totalChunks == (Len(file) \div chunkSize) + 1
  IN  [i \in 1..totalChunks |->
         Slice(file, (i - 1) * chunkSize, Min(Len(file), (i - 1) * chunkSize + chunkSize))]

prepareFileChunks(file, chunkSize) ==
  LET totalChunks == CeilDiv(Len(file), chunkSize)
  IN  [i \in 1..totalChunks |->
         Slice(file, (i - 1) * chunkSize, Min(Len(file), (i - 1) * chunkSize + chunkSize))]

-----------------------------------------------------------------------------
(* AES-GCM through window.crypto.subtle                                     *)
Fail == [ok |-> FALSE, data |-> <<>>]
Ok(d) == [ok |-> TRUE, data |-> d]

IvNum(iv) == IF Len(iv) >= 1 /\ IsData(iv[1]) THEN iv[1][1] ELSE 0
KeyStream(key, iv, i) == (key + IvNum(iv) + i) % ByteMod

Tag(key, iv, ct) ==
  <<key>> \o [i \in 1..Len(iv) |-> iv[i][1]] \o [i \in 1..Len(ct) |-> ct[i][1]]

\* subtle.encrypt({name: 'AES-GCM', iv}, key, data): ciphertext followed by the tag
AeadEncrypt(key, iv, plain) ==
  LET ct == [i \in 1..Len(plain) |->
               DataBlock((plain[i][1] + KeyStream(key, iv, i)) % ByteMod)]
  IN  ct \o <<Tag(key, iv, ct)>>

AeadDecrypt_NoTagCheck(key, iv, data) ==
  IF Len(data) < AUTH_TAG_SIZE THEN Fail
  ELSE LET ct == SubSeq(data, 1, Len(data) - AUTH_TAG_SIZE)
       IN  Ok([i \in 1..Len(ct) |->
                 DataBlock((ct[i][1] + ByteMod - KeyStream(key, iv, i)) % ByteMod)])

\* subtle.decrypt: rejects (OperationError) unless the last block is the tag of the rest
AeadDecrypt(key, iv, data) ==
  IF Len(data) < AUTH_TAG_SIZE THEN Fail
  ELSE LET ct == SubSeq(data, 1, Len(data) - AUTH_TAG_SIZE)
           t  == data[Len(data)]
       IN  IF /\ \A i \in 1..Len(iv) : IsData(iv[i])
              /\ \A i \in 1..Len(ct) : IsData(ct[i])
              /\ t = Tag(key, iv, ct)
           THEN Ok([i \in 1..Len(ct) |->
                      DataBlock((ct[i][1] + ByteMod - KeyStream(key, iv, i)) % ByteMod)])
           ELSE Fail

-----------------------------------------------------------------------------
(* encryptFile and its two large-file paths.  The result is the blob and    *)
(* the list of subtle.encrypt calls made to produce it.                     *)
EncCall(key, iv, plain) == [key |-> key, iv |-> iv, plain |-> plain]
Encrypted(blob, calls) == [blob |-> blob, calls |-> calls]

\* encryptLargeFile's read loop: the file copied into fileBuffer read by read
RECURSIVE ReadInChunks(_, _)
ReadInChunks(file, i) ==
  IF i >= CeilDiv(Len(file), CHUNK_READ_SIZE) THEN <<>>
  ELSE Slice(file, i * CHUNK_READ_SIZE, Min(i * CHUNK_READ_SIZE + CHUNK_READ_SIZE, Len(file)))
       \o ReadInChunks(file, i + 1)

\* encryptStreamingLargeFile's loop over the segments 1..totalSegments-1
RECURSIVE StreamSegments(_, _, _, _)
StreamSegments(file, key, iv, i) ==
  IF i >= CeilDiv(Len(file), SEGMENT_SIZE) THEN <<>>
  ELSE <<Slice(file, i * SEGMENT_SIZE, Min(i * SEGMENT_SIZE + SEGMENT_SIZE, Len(file)))>>
       \o StreamSegments(file, key, iv, i + 1)

encryptStreamingLargeFile(file, key, iv) ==
  LET firstSegment == Slice(file, 0, Min(SEGMENT_SIZE, Len(file)))
      rest         == StreamSegments(file, key, iv, 1)
      encryptedSegments ==
        <<iv \o AeadEncrypt(key, iv, firstSegment)>>
        \o [i \in 1..Len(rest) |-> AeadEncrypt(key, iv, rest[i])]
  IN  Encrypted(Concat(encryptedSegments),
                <<EncCall(key, iv, firstSegment)>>
                \o [i \in 1..Len(rest) |-> EncCall(key, iv, rest[i])])

encryptLargeFile(file, key, iv) ==
  IF Len(file) > STREAMING_LIMIT THEN encryptStreamingLargeFile(file, key, iv)
  ELSE LET fileBuffer == ReadInChunks(file, 0)
       IN  Encrypted(iv \o AeadEncrypt(key, iv, fileBuffer),
                     <<EncCall(key, iv, fileBuffer)>>)

encryptFile_NoIv(file, key, iv) ==
  Encrypted(AeadEncrypt(key, iv, file), <<EncCall(key, iv, file)>>)

encryptFile(file, key, iv) ==
  IF Len(file) > LARGE_FILE_LIMIT THEN encryptLargeFile(file, key, iv)
  ELSE Encrypted(iv \o AeadEncrypt(key, iv, file), <<EncCall(key, iv, file)>>)

-----------------------------------------------------------------------------
(* Decryption.  Every function returns [ok, data]; ok = FALSE is a throw.   *)

\* decryptLargeFile's loop over the DECRYPT_CHUNK_SIZE slices, after the test
\* slice decrypted: "partial" is set when a slice throws, and the slices
\* decrypted before it stay in decryptedChunks
RECURSIVE DecryptSlices(_, _, _, _, _)
DecryptSlices(encryptedData, key, iv, i, totalChunks) ==
  IF i >= totalChunks THEN [chunks |-> <<>>, threw |-> FALSE]
  ELSE LET start == i * DECRYPT_CHUNK_SIZE
           end   == Min(start + DECRYPT_CHUNK_SIZE, Len(encryptedData))
       IN  IF start < Len(encryptedData)
           THEN LET d == AeadDecrypt(key, iv, Slice(encryptedData, start, end))
                IN  IF d.ok
                    THEN LET r == DecryptSlices(encryptedData, key, iv, i + 1, totalChunks)
                         IN  [chunks |-> <<d.data>> \o r.chunks, threw |-> r.threw]
                    ELSE [chunks |-> <<>>, threw |-> TRUE]
           ELSE DecryptSlices(encryptedData, key, iv, i + 1, totalChunks)

decryptLargeFile(encryptedBlob, key) ==
  LET size == Len(encryptedBlob)
      iv   == Slice(encryptedBlob, 0, IV_LENGTH)
      totalChunks == CeilDiv(Max(size - IV_LENGTH, 0), DECRYPT_CHUNK_SIZE)
      firstChunkData ==
        Slice(encryptedBlob, IV_LENGTH, IV_LENGTH + Min(DECRYPT_TEST_SIZE, size - IV_LENGTH))
      testDecrypted == AeadDecrypt(key, iv, firstChunkData)
      encryptedData == Slice(encryptedBlob, IV_LENGTH, size)
  IN  IF ~testDecrypted.ok
      THEN \* successfulDecryption = false: decrypt the entire content at once
           AeadDecrypt(key, iv, encryptedData)
      ELSE LET r == DecryptSlices(encryptedData, key, iv, 0, totalChunks)
           IN  IF Len(r.chunks) > 0 THEN Ok(Concat(r.chunks)) ELSE Fail

\* batchDecryptChunks' loop over the chunks 1..n-1: a chunk that does not
\* decrypt is retried without its first 16 bytes and otherwise skipped
RECURSIVE DecryptSeparately(_, _, _, _)
DecryptSeparately(encryptedChunks, key, iv, i) ==
  IF i > Len(encryptedChunks) THEN <<>>
  ELSE LET chunkData == encryptedChunks[i]
           decrypted == AeadDecrypt(key, iv, chunkData)
           trimmed   == AeadDecrypt(key, iv, Slice(chunkData, AUTH_TAG_SIZE, Len(chunkData)))
           rest      == DecryptSeparately(encryptedChunks, key, iv, i + 1)
       IN  IF decrypted.ok THEN <<decrypted.data>> \o rest
           ELSE IF Len(chunkData) > AUTH_TAG_SIZE /\ trimmed.ok THEN <<trimmed.data>> \o rest
           ELSE rest

batchDecryptChunks(encryptedChunks, key) ==
  IF Len(encryptedChunks) = 0 THEN Fail
  ELSE
  LET firstChunk == encryptedChunks[1]
      iv == Slice(firstChunk, 0, IV_LENGTH)
      firstChunkData == Slice(firstChunk, IV_LENGTH, Len(firstChunk))
      firstDecrypted == AeadDecrypt(key, iv, firstChunkData)
      \* first approach: each chunk decrypted separately
      separateThrew  == Len(firstChunkData) > 0 /\ ~firstDecrypted.ok
      decryptedChunks ==
        (IF Len(firstChunkData) > 0 THEN <<firstDecrypted.data>> ELSE <<>>)
        \o DecryptSeparately(encryptedChunks, key, iv, 2)
      \* alternative approach: the whole blob through decryptLargeFile
      whole == decryptLargeFile(Concat(encryptedChunks), key)
      \* last resort: the chunks copied into one buffer, the IV skipped
      actualData == Slice(Concat(encryptedChunks), IV_LENGTH, Len(Concat(encryptedChunks)))
  IN  IF Len(firstChunk) < IV_LENGTH THEN Fail
      ELSE IF ~separateThrew /\ Len(decryptedChunks) > 0 THEN Ok(Concat(decryptedChunks))
      ELSE IF whole.ok THEN whole
      ELSE AeadDecrypt(key, iv, actualData)

decryptChunkedFile(encryptedChunks, key) ==
  IF Len(encryptedChunks) = 0 THEN Fail
  ELSE
  LET firstChunkData == encryptedChunks[1]
      iv == Slice(firstChunkData, 0, IV_LENGTH)
      finalEncryptedData ==
        Slice(Concat(encryptedChunks), IV_LENGTH, Len(Concat(encryptedChunks)))
      \* approach 1: the whole data
      direct == AeadDecrypt(key, iv, finalEncryptedData)
      \* approach 2: without the last 16 bytes
      withoutEndTag ==
        IF Len(finalEncryptedData) > AUTH_TAG_SIZE
        THEN AeadDecrypt(key, iv,
               Slice(finalEncryptedData, 0, Len(finalEncryptedData) - AUTH_TAG_SIZE))
        ELSE Fail
      \* approach 3: the first chunk alone; the first two chunks only when the
      \* first chunk holds nothing but the IV (a throw of the first attempt
      \* leaves the try block)
      firstChunkContent == Slice(firstChunkData, IV_LENGTH, Len(firstChunkData))
      arrangement ==
        IF Len(firstChunkContent) > 0 THEN AeadDecrypt(key, iv, firstChunkContent)
        ELSE IF Len(encryptedChunks) >= 2
             THEN AeadDecrypt(key, iv, firstChunkContent \o encryptedChunks[2])
             ELSE Fail
      \* approach 4: the raw data of all chunks
      rawData == Concat(encryptedChunks)
      lastResort ==
        AeadDecrypt(key, Slice(rawData, 0, IV_LENGTH), Slice(rawData, IV_LENGTH, Len(rawData)))
  IN  IF Len(firstChunkData) < IV_LENGTH THEN Fail
      ELSE IF direct.ok THEN direct
      ELSE IF withoutEndTag.ok THEN withoutEndTag
      ELSE IF arrangement.ok THEN arrangement
      ELSE lastResort

\* processDownload's decryption step: decryptChunkedFile, then the
\* batchDecryptChunks fallback; the status the download ends in
Decrypted(status, data) == [status |-> status, data |-> data]
processDownloadDecrypt_SwallowError(allChunks, key) ==
  LET first == decryptChunkedFile(allChunks, key)
      fallback == batchDecryptChunks(allChunks, key)
  IN  IF first.ok THEN Decrypted("ready", first.data)
      ELSE Decrypted("ready", fallback.data)

processDownloadDecrypt(allChunks, key) ==
  LET first == decryptChunkedFile(allChunks, key)
      fallback == batchDecryptChunks(allChunks, key)
  IN  IF first.ok THEN Decrypted("ready", first.data)
      ELSE IF fallback.ok THEN Decrypted("ready", fallback.data)
      ELSE Decrypted("error", <<>>)

-----------------------------------------------------------------------------
(* The splitter on its own: a blob and a chunk size, then prepareFileChunks *)
InitSplit ==
  /\ spc = "input"
  /\ sBlob \in BlobsUpTo(MaxBlobLen)
  /\ sSize \in 1..MaxChunkSize
  /\ sChunks = <<>>

SplitIdle == spc = "off" /\ sBlob = <<>> /\ sSize = 1 /\ sChunks = <<>>

SplitBlob ==
  /\ spc = "input"
  /\ sChunks' = prepareFileChunks(sBlob, sSize)
  /\ spc' = "split"
  /\ UNCHANGED <<sBlob, sSize>>
  /\ UNCHANGED outsideSplit

-----------------------------------------------------------------------------
(* One file through encryptFile, prepareFileChunks at the configured chunk  *)
(* size and the download's decryption, with or without one altered block    *)
NoResult == [ok |-> FALSE, data |-> <<>>]
NoStatus == [status |-> "idle", data |-> <<>>]
NoEnc    == [blob |-> <<>>, calls |-> <<>>]

InitCrypto ==
  /\ cpc = "input"
  /\ cFile \in BlobsUpTo(MaxFileLen)
  /\ cKey \in 1..NumKeys
  /\ cEnc = NoEnc
  /\ cChunks = <<>>
  /\ cTampered = FALSE
  /\ cOut = [chunked |-> NoResult, download |-> NoStatus]

CryptoIdle ==
  /\ cpc = "off" /\ cFile = <<>> /\ cKey = 1 /\ cEnc = NoEnc /\ cChunks = <<>>
  /\ cTampered = FALSE /\ cOut = [chunked |-> NoResult, download |-> NoStatus]

\* window.crypto.getRandomValues(new Uint8Array(IV_LENGTH))
RandomIvs == {<<DataBlock(n)>> : n \in 1..NumIvs}

EncryptStep ==
  /\ cpc = "input"
  /\ \E iv \in RandomIvs : cEnc' = encryptFile(cFile, cKey, iv)
  /\ cpc' = "encrypted"
  /\ UNCHANGED <<cFile, cKey, cChunks, cTampered, cOut>>
  /\ UNCHANGED outsideCrypto

SplitStep ==
  /\ cpc = "encrypted"
  /\ cChunks' = prepareFileChunks(cEnc.blob, CHUNK_SIZE)
  /\ cpc' = "split"
  /\ UNCHANGED <<cFile, cKey, cEnc, cTampered, cOut>>
  /\ UNCHANGED outsideCrypto

\* the values an altered block can take: another data value for a data block,
\* a tag that belongs to no ciphertext for a tag block
BadTag == <<0, 0>>
Alterations(block) ==
  IF IsData(block) THEN {DataBlock(v) : v \in 0..NumIvs} \ {block} ELSE {BadTag}

TamperStep ==
  /\ cpc = "split" /\ ~cTampered
  /\ \E c \in 1..Len(cChunks) : \E p \in 1..Len(cChunks[c]) :
       \E b \in Alterations(cChunks[c][p]) :
         cChunks' = [cChunks EXCEPT ![c][p] = b]
  /\ cTampered' = TRUE
  /\ UNCHANGED <<cpc, cFile, cKey, cEnc, cOut>>
  /\ UNCHANGED outsideCrypto

DecryptStep ==
  /\ cpc = "split"
  /\ cOut' = [cOut EXCEPT !.chunked = decryptChunkedFile(cChunks, cKey)]
  /\ cpc' = "decrypted"
  /\ UNCHANGED <<cFile, cKey, cEnc, cChunks, cTampered>>
  /\ UNCHANGED outsideCrypto

FinishDownloadStep ==
  /\ cpc = "decrypted"
  /\ cOut' = [cOut EXCEPT !.download = processDownloadDecrypt(cChunks, cKey)]
  /\ cpc' = "done"
  /\ UNCHANGED <<cFile, cKey, cEnc, cChunks, cTampered>>
  /\ UNCHANGED outsideCrypto

-----------------------------------------------------------------------------
(* Text encodings.  A byte string and a text are naturals; every encoding   *)
(* is an injective map with a decoder that rejects what it did not produce. *)
BadDecode == 0 - 1
arrayBufferToBase64(b) == 2 * b + 1
base64ToArrayBuffer(s) == IF s >= 0 /\ s % 2 = 1 THEN (s - 1) \div 2 ELSE BadDecode
\* zlibSync(new TextEncoder().encode(text)) and its inverse
zlibSync(text) == 3 * text + 2
unzlibSync(b) == IF b >= 0 /\ b % 3 = 2 THEN (b - 2) \div 3 ELSE BadDecode
\* crypto.subtle.exportKey('raw', key) / importKey('raw', bytes)
exportKey(key) == key + 10
importKey(raw) == IF raw > 10 THEN raw - 10 ELSE BadDecode

\* JSON.stringify(fileMetadata) and JSON.parse: the text of an array of
\* {id, name, type, size} entries is a natural, one digit of base JsonBase per
\* entry under a leading 1; a text with a digit that is no entry does not parse
JsonSizes == 16
JsonBase == 64
JsonEntry(m) == m.id * JsonSizes + m.size
RECURSIVE JSONstringify(_)
JSONstringify(fileMetadata) ==
  IF fileMetadata = <<>> THEN 1
  ELSE JSONstringify(SubSeq(fileMetadata, 1, Len(fileMetadata) - 1)) * JsonBase
         + JsonEntry(fileMetadata[Len(fileMetadata)])
\* JSON.parse and the decoders built on it return what they produced, or
\* that they threw
Threw == [threw |-> TRUE, value |-> <<>>]
Parsed(value) == [threw |-> FALSE, value |-> value]
RECURSIVE JSONparse(_)
JSONparse(text) ==
  IF text < 1 THEN Threw
  ELSE IF text = 1 THEN Parsed(<<>>)
  ELSE LET entry == text % JsonBase
           id == entry \div JsonSizes
           front == JSONparse(text \div JsonBase)
       IN  IF id = 0 \/ front.threw THEN Threw
           ELSE Parsed(Append(front.value,
                  [id |-> id, name |-> id, type |-> "application/octet-stream",
                   size |-> entry % JsonSizes]))

\* the meta parameter of the share link: JSON.stringify(fileMetadata),
\* compressed and base64-encoded; and the three steps back, each of which
\* can throw
NoMeta == 0
EncodeMetadata(fileMetadata) == arrayBufferToBase64(zlibSync(JSONstringify(fileMetadata)))
DecodeMetadata(metaParam) ==
  LET compressedMeta == base64ToArrayBuffer(metaParam)
      metaStr == IF compressedMeta = BadDecode THEN BadDecode ELSE unzlibSync(compressedMeta)
  IN  IF metaStr = BadDecode THEN Threw ELSE JSONparse(metaStr)
\* the key parameter read without decompressing it
DecodeKey_NoInflate(keyParam) == base64ToArrayBuffer(keyParam)

\* the key parameter back to the base64 text of the key
DecodeKey(keyParam) ==
  LET compressedKey == base64ToArrayBuffer(keyParam)
  IN  IF compressedKey = BadDecode THEN BadDecode ELSE unzlibSync(compressedKey)

-----------------------------------------------------------------------------
(* uploadStore: IndexedDB                                                   *)
DefaultUploadState(batchId) ==
  [batchId |-> batchId, fileIds |-> <<>>, encryptionKey |-> 0, totalSize |-> 0,
   uploadedSize |-> 0, status |-> "pending", metadata |-> <<>>]

HasUploadState(uploads, batchId) == \E u \in uploads : u.batchId = batchId
getUploadState(uploads, batchId) == CHOOSE u \in uploads : u.batchId = batchId

\* read the record (or the default one), overwrite the given fields, put it back
saveUploadState(uploads, batchId, state) ==
  LET existingState == IF HasUploadState(uploads, batchId)
                       THEN getUploadState(uploads, batchId)
                       ELSE DefaultUploadState(batchId)
      updatedState == [f \in DOMAIN existingState |->
                         IF f \in DOMAIN state THEN state[f] ELSE existingState[f]]
  IN {u \in uploads : u.batchId # batchId} \cup {updatedState}

\* the key of a chunk state is `${batchId}-${fileId}-${chunkIndex}`
SameChunkKey(a, b) ==
  a.batchId = b.batchId /\ a.fileId = b.fileId /\ a.chunkIndex = b.chunkIndex

saveChunkState(chunks, state) ==
  {c \in chunks : ~SameChunkKey(c, state)} \cup {state}

RECURSIVE saveChunkStates(_, _)
saveChunkStates(chunks, states) ==
  IF states = <<>> THEN chunks
  ELSE saveChunkStates(saveChunkState(chunks, Head(states)), Tail(states))

getAllChunks(chunks, batchId) == {c \in chunks : c.batchId = batchId}

\* chunkStates.find(c => c.chunkIndex === chunkIndex) over getAll(), which
\* returns the records in key order: the first match is the one of the
\* smallest file id
addUploadedChunk(db, batchId, chunkIndex) ==
  LET matching == {c \in getAllChunks(db.chunks, batchId) : c.chunkIndex = chunkIndex}
      matchingChunk == CHOOSE c \in matching : \A d \in matching : c.fileId <= d.fileId
  IN IF ~HasUploadState(db.uploads, batchId) \/ matching = {} THEN db
     ELSE [db EXCEPT !.chunks = saveChunkState(
              @, [matchingChunk EXCEPT !.uploaded = TRUE, !.status = "completed"])]

getIncompleteUploads(uploads) ==
  {u \in uploads : u.status # "completed" /\ u.status # "error"}

-----------------------------------------------------------------------------
(* The backend's chunk store: object `${batchID}/${chunkIndex}`             *)
StoreObject(objects, batchId, chunkIndex, data) ==
  {o \in objects : ~(o.batchId = batchId /\ o.chunkIndex = chunkIndex)}
    \cup {[batchId |-> batchId, chunkIndex |-> chunkIndex, data |-> data]}

HasObject(objects, batchId, chunkIndex) ==
  \E o \in objects : o.batchId = batchId /\ o.chunkIndex = chunkIndex

GetObject(objects, batchId, chunkIndex) ==
  (CHOOSE o \in objects : o.batchId = batchId /\ o.chunkIndex = chunkIndex).data

\* a request as the backend sees it: method, route, path and query parameters
NoQuery == [batch |-> 0, key |-> 0, meta |-> NoMeta]
Request(method, route, batchId, chunkIndex, query) ==
  [method |-> method, route |-> route, batchId |-> batchId,
   chunkIndex |-> chunkIndex, query |-> query]

-----------------------------------------------------------------------------
(* The backend and UploadStore before any request or call                   *)
NoCall == [handler |-> "none", batchId |-> 0, chunkIndex |-> 0, data |-> 0,
           seekable |-> FALSE, attempt |-> 0, retryDelay |-> 0, slept |-> <<>>]
\* the chunk upload request last received: the router that took it, its path
\* parameters as sent, its part and the status answered at once (0: none yet)
NoRequest == [via |-> "none", batchId |-> 0, chunkIndexStr |-> <<>>, data |-> 0, status |-> 0]
NoBackend == [objects |-> {}, call |-> NoCall, answered |-> {}, requests |-> 0, faults |-> 0,
              request |-> NoRequest]
NoStore == [uploads |-> {}, chunks |-> {}, now |-> 0, calls |-> {}, writes |-> <<>>,
            cleanups |-> 0, threw |-> FALSE, deletes |-> <<>>]
ServicesIdle == be = NoBackend /\ st = NoStore

-----------------------------------------------------------------------------
(* The sender's page: useUploadManager                                      *)
FileSizes == {1, 2 * CHUNK_SIZE, STREAMING_LIMIT + 1}
FileContent(n, id) == [i \in 1..n |-> DataBlock((i + id) % ByteMod)]

MAX_CONCURRENT == Min(MAX_PARALLEL_UPLOADS, 3)
Workers == 1..MAX_CONCURRENT

NoShareLink == NoQuery
NoRun == [kind |-> "none", isPaused |-> FALSE, items |-> <<>>, pos |-> 0,
          key |-> 0, batch |-> 0, phase |-> "idle", shareUrl |-> NoShareLink]
NoUploadFile ==
  [kind |-> "none", isPaused |-> FALSE, batch |-> 0, fileId |-> 0, file |-> <<>>,
   chunks |-> <<>>, chunkStates |-> <<>>, activeUploads |-> 0, chunkIndex |-> 0,
   failedChunks |-> 0, encryptedSize |-> 0]
IdleWorker == [pc |-> "idle", currentIndex |-> 0, xhr |-> "none"]
FreshPage(resumable) ==
  [files |-> <<>>, isUploading |-> FALSE, isPaused |-> FALSE, batchId |-> 0,
   encryptionKey |-> 0, shareLink |-> NoShareLink, activeXhrs |-> {},
   resumableUploads |-> resumable]
\* the locals of a processDownload call: allChunks holds the downloaded
\* buffers (with the index each was requested under), requests the chunk
\* requests made and how each ended, handed the indices of the buffers
\* given to decryptChunkedFile
NoDownload ==
  [pc |-> "idle", key |-> 0, chunkIndex |-> 0, allChunks |-> <<>>,
   hasErrors |-> FALSE, totalDetectedChunks |-> 0, heads |-> {}, headOrder |-> <<>>,
   requests |-> <<>>, handed |-> <<>>, failures |-> 0]
ClosedReceiver ==
  [status |-> "closed", batchId |-> 0, keyBase64 |-> 0, metadata |-> <<>>,
   previewState |-> "idle", download |-> NoDownload, data |-> <<>>,
   search |-> NoQuery, storedMetadata |-> 0]

\* addFiles: one UploadFile per selected File, ids in selection order
UploadFileItem(id, file) == [id |-> id, file |-> file, status |-> "pending"]
Selections ==
  UNION {[1..n -> FileSizes] : n \in 1..MaxFiles}
addFiles(sizes) ==
  [i \in 1..Len(sizes) |-> UploadFileItem(i, FileContent(sizes[i], i))]

FileMetadata(fileItem) ==
  [id |-> fileItem.id, name |-> fileItem.id, type |-> "application/octet-stream",
   size |-> Len(fileItem.file)]

SetFileStatus(files, id, status) ==
  [i \in 1..Len(files) |->
     IF files[i].id = id THEN [files[i] EXCEPT !.status = status] ELSE files[i]]

TransferIdle ==
  /\ ui = FreshPage({}) /\ run = NoRun /\ uf = NoUploadFile
  /\ workers = [w \in Workers |-> IdleWorker]
  /\ idb = [uploads |-> {}, chunks |-> {}]
  /\ local = {}
  /\ server = [batches |-> {}, chunks |-> {}, log |-> {}]
  /\ rng = [keys |-> 0, ivs |-> 0, aead |-> <<>>]
  /\ hist = [selected |-> <<>>, resumed |-> FALSE, resumeFound |-> {},
             resumeSent |-> {}, failures |-> 0, pauses |-> 0, restarts |-> 0]
  /\ rx = ClosedReceiver
  /\ ServicesIdle

InitTransfer ==
  /\ \E sizes \in Selections :
       /\ ui = [FreshPage({}) EXCEPT !.files = addFiles(sizes)]
       /\ hist = [selected |-> addFiles(sizes), resumed |-> FALSE, resumeFound |-> {},
                  resumeSent |-> {}, failures |-> 0, pauses |-> 0, restarts |-> 0]
  /\ run = NoRun /\ uf = NoUploadFile
  /\ workers = [w \in Workers |-> IdleWorker]
  /\ idb = [uploads |-> {}, chunks |-> {}]
  /\ local = {}
  /\ server = [batches |-> {}, chunks |-> {}, log |-> {}]
  /\ rng = [keys |-> 0, ivs |-> 0, aead |-> <<>>]
  /\ rx = ClosedReceiver
  /\ ServicesIdle

WorkersQuiet == \A w \in Workers : workers[w].pc \in {"idle", "done", "threw"}

\* the link set whenever the handler ends, whether the upload succeeded or not
HandlerEnd_LinkAlways(page, r, succeeded) ==
  LET linked == IF r.kind = "upload" /\ ~r.isPaused
                THEN [page EXCEPT !.shareLink = r.shareUrl] ELSE page
      stopped == IF ~r.isPaused THEN [linked EXCEPT !.isUploading = FALSE] ELSE linked
  IN  IF r.kind = "resume" /\ ~r.isPaused
      THEN [stopped EXCEPT !.resumableUploads = {u \in @ : u.batchId # r.batch}]
      ELSE stopped

\* the end of handleUpload / handleResumeUpload(uploadState): the share link
\* when the loop ran through, and the finally block
HandlerEnd(page, r, succeeded) ==
  LET linked == IF r.kind = "upload" /\ succeeded /\ ~r.isPaused
                THEN [page EXCEPT !.shareLink = r.shareUrl] ELSE page
      stopped == IF ~r.isPaused THEN [linked EXCEPT !.isUploading = FALSE] ELSE linked
  IN  IF r.kind = "resume" /\ ~r.isPaused
      THEN [stopped EXCEPT !.resumableUploads = {u \in @ : u.batchId # r.batch}]
      ELSE stopped

\* handleUpload up to the loop over the files
handleUpload ==
  /\ run.kind = "none" /\ WorkersQuiet
  /\ ~ui.isUploading
  /\ Len(ui.files) > 0
  /\ rng.keys < MaxBatches
  /\ LET key == rng.keys + 1
         newBatchId == Cardinality(server.batches) + 1
         keyBase64 == arrayBufferToBase64(exportKey(key))
         fileMetadata == [i \in 1..Len(ui.files) |-> FileMetadata(ui.files[i])]
         shareUrl == [batch |-> newBatchId,
                      key |-> arrayBufferToBase64(zlibSync(keyBase64)),
                      meta |-> EncodeMetadata(fileMetadata)]
     IN  /\ rng' = [rng EXCEPT !.keys = key]
         /\ server' = [server EXCEPT
                         !.batches = @ \cup {newBatchId},
                         !.log = @ \cup {Request("POST", "/api/batch", 0, 0, NoQuery)}]
         /\ local' = local \cup {[batchId |-> newBatchId,
                                   metadata |-> JSONstringify(fileMetadata)]}
         /\ ui' = [ui EXCEPT !.isUploading = TRUE, !.isPaused = FALSE,
                             !.encryptionKey = key, !.batchId = newBatchId]
         /\ run' = [kind |-> "upload", isPaused |-> ui.isPaused, items |-> ui.files,
                    pos |-> 1, key |-> key, batch |-> newBatchId, phase |-> "file",
                    shareUrl |-> shareUrl]
  /\ UNCHANGED <<uf, workers, idb, hist, rx>>
  /\ UNCHANGED outsideTransfer

\* handleUpload when POST /api/batch fails: the catch and the finally block
handleUploadNoBatch ==
  /\ run.kind = "none" /\ WorkersQuiet
  /\ ~ui.isUploading
  /\ Len(ui.files) > 0
  /\ rng.keys < MaxBatches
  /\ hist.failures < MaxFailures
  /\ rng' = [rng EXCEPT !.keys = @ + 1]
  /\ server' = [server EXCEPT !.log = @ \cup {Request("POST", "/api/batch", 0, 0, NoQuery)}]
  /\ ui' = [ui EXCEPT !.isUploading = ui.isPaused, !.isPaused = FALSE,
                      !.encryptionKey = rng.keys + 1]
  /\ hist' = [hist EXCEPT !.failures = @ + 1]
  /\ UNCHANGED <<run, uf, workers, idb, local, rx>>
  /\ UNCHANGED outsideTransfer

-----------------------------------------------------------------------------
(* uploadFile                                                               *)
InitialChunkStates(batch, fileId, chunks) ==
  [i \in 1..Len(chunks) |->
     [batchId |-> batch, fileId |-> fileId, chunkIndex |-> i - 1, uploaded |-> FALSE,
      size |-> Len(chunks[i]), status |-> "pending", attempts |-> 0]]

\* window.crypto.getRandomValues: an IV no earlier call was given
FreshIv == <<DataBlock(rng.ivs + 1)>>
AeadCalls(calls) == [i \in 1..Len(calls) |-> <<calls[i].key, IvNum(calls[i].iv)>>]

\* uploadFile down to the start of the workers: encryptFile, prepareFileChunks,
\* the chunk states, saveUploadState and saveChunkState
uploadFileStart(fileItem, key, batch, db) ==
  LET encrypted == encryptFile(fileItem.file, key, FreshIv)
      chunks == prepareFileChunks(encrypted.blob, CHUNK_SIZE)
      chunkStates == InitialChunkStates(batch, fileItem.id, chunks)
  IN  [encrypted |-> encrypted, chunks |-> chunks, chunkStates |-> chunkStates,
       db |-> [uploads |-> saveUploadState(db.uploads, batch,
                  [batchId |-> batch, fileIds |-> <<fileItem.id>>,
                   encryptionKey |-> arrayBufferToBase64(exportKey(key)),
                   totalSize |-> Len(encrypted.blob), uploadedSize |-> 0,
                   status |-> "uploading", metadata |-> <<FileMetadata(fileItem)>>]),
               chunks |-> saveChunkStates(db.chunks, chunkStates)]]

uploadFileBegin ==
  /\ run.phase = "file" /\ run.pos <= Len(run.items)
  /\ rng.ivs < MaxEncrypts
  /\ LET fileItem == run.items[run.pos]
         started == uploadFileStart(fileItem, run.key, run.batch, idb)
     IN  /\ ui' = [ui EXCEPT !.files = SetFileStatus(@, fileItem.id, "uploading")]
         /\ rng' = [rng EXCEPT !.ivs = @ + 1,
                               !.aead = @ \o AeadCalls(started.encrypted.calls)]
         /\ idb' = started.db
         /\ uf' = [kind |-> run.kind, isPaused |-> run.isPaused, batch |-> run.batch,
                   fileId |-> fileItem.id, file |-> fileItem.file,
                   chunks |-> started.chunks, chunkStates |-> started.chunkStates,
                   activeUploads |-> 0, chunkIndex |-> 0, failedChunks |-> 0,
                   encryptedSize |-> Len(started.encrypted.blob)]
         /\ workers' = [w \in Workers |-> [IdleWorker EXCEPT !.pc = "loop"]]
         /\ run' = [run EXCEPT !.phase = "workers"]
  /\ UNCHANGED <<local, server, hist, rx>>
  /\ UNCHANGED outsideTransfer

XhrKey(fileId, chunkIndex, w) == [fileId |-> fileId, chunkIndex |-> chunkIndex, xhr |-> w]
PutXhr(xhrs, entry) ==
  {e \in xhrs : ~(e.fileId = entry.fileId /\ e.chunkIndex = entry.chunkIndex)} \cup {entry}
DeleteXhr(xhrs, fileId, chunkIndex) ==
  {e \in xhrs : ~(e.fileId = fileId /\ e.chunkIndex = chunkIndex)}

\* one turn of processNextChunk's loop, up to the request being sent
\* (the workers waiting at the top of the loop are indistinguishable: the
\* one with the smallest number runs first)
processNextChunk(w) ==
  /\ workers[w].pc = "loop"
  /\ \A v \in Workers : v < w => workers[v].pc # "loop"
  /\ IF ~(uf.chunkIndex < Len(uf.chunks) /\ ~uf.isPaused)
     THEN /\ workers' = [workers EXCEPT ![w].pc = "done"]
          /\ UNCHANGED <<uf, idb, ui, hist>>
     ELSE IF uf.activeUploads >= MAX_CONCURRENT
     THEN UNCHANGED <<workers, uf, idb, ui, hist>>
     ELSE LET currentIndex == uf.chunkIndex
              state == [uf.chunkStates[currentIndex + 1] EXCEPT !.status = "uploading"]
          IN  IF uf.chunkStates[currentIndex + 1].uploaded
              THEN /\ uf' = [uf EXCEPT !.chunkIndex = @ + 1]
                   /\ UNCHANGED <<workers, idb, ui, hist>>
              ELSE /\ uf' = [uf EXCEPT !.chunkIndex = @ + 1, !.activeUploads = @ + 1,
                                       !.chunkStates[currentIndex + 1] = state]
                   /\ idb' = [idb EXCEPT !.chunks = saveChunkState(@, state)]
                   /\ ui' = [ui EXCEPT !.activeXhrs =
                               PutXhr(@, XhrKey(uf.fileId, currentIndex, w))]
                   /\ workers' = [workers EXCEPT ![w] =
                        [pc |-> "uploading", currentIndex |-> currentIndex, xhr |-> "sent"]]
                   /\ hist' = IF uf.kind = "resume"
                              THEN [hist EXCEPT !.resumeSent =
                                      @ \cup {<<uf.fileId, currentIndex>>}]
                              ELSE hist
  /\ UNCHANGED <<run, local, server, rng, rx>>
  /\ UNCHANGED outsideTransfer

\* the backend's UploadChunk: the chunk stored under batchId/chunkIndex
UploadChunk(w) ==
  /\ workers[w].xhr = "sent"
  /\ LET chunk == uf.chunks[workers[w].currentIndex + 1]
         request == Request("POST", "/api/upload", uf.batch, workers[w].currentIndex, NoQuery)
     IN  IF Len(chunk) = 0
         THEN /\ server' = [server EXCEPT !.log = @ \cup {request}]
              /\ workers' = [workers EXCEPT ![w].xhr = "failed"]
         ELSE /\ server' = [server EXCEPT
                    !.log = @ \cup {request},
                    !.chunks = StoreObject(@, uf.batch, workers[w].currentIndex, chunk)]
              /\ workers' = [workers EXCEPT ![w].xhr = "ok"]
  /\ UNCHANGED <<ui, run, uf, idb, local, rng, hist, rx>>
  /\ UNCHANGED outsideTransfer

\* a request that ends in xhr.onerror, xhr.ontimeout or a status outside 2xx,
\* before the backend stored the chunk or after it
chunkRequestFails(w) ==
  /\ workers[w].xhr \in {"sent", "ok"}
  /\ hist.failures < MaxFailures
  /\ workers' = [workers EXCEPT ![w].xhr = "failed"]
  /\ hist' = [hist EXCEPT !.failures = @ + 1]
  /\ UNCHANGED <<ui, run, uf, idb, local, server, rng, rx>>
  /\ UNCHANGED outsideTransfer
\* the chunk marked 'completed' without its uploaded flag
chunkUploaded_StatusOnly(w) ==
  /\ workers[w].xhr = "ok"
  /\ LET currentIndex == workers[w].currentIndex
         state == [uf.chunkStates[currentIndex + 1] EXCEPT !.status = "completed"]
     IN  /\ ui' = [ui EXCEPT !.activeXhrs = DeleteXhr(@, uf.fileId, currentIndex)]
         /\ uf' = [uf EXCEPT !.chunkStates[currentIndex + 1] = state,
                             !.activeUploads = @ - 1]
         /\ idb' = addUploadedChunk(
                     [idb EXCEPT !.chunks = saveChunkState(@, state)], uf.batch, currentIndex)
         /\ workers' = [workers EXCEPT ![w] = [IdleWorker EXCEPT !.pc = "loop"]]
  /\ UNCHANGED <<run, local, server, rng, hist, rx>>
  /\ UNCHANGED outsideTransfer


\* xhr.onload with a 2xx status, and processNextChunk after uploadChunk resolved
chunkUploaded(w) ==
  /\ workers[w].xhr = "ok"
  /\ LET currentIndex == workers[w].currentIndex
         state == [uf.chunkStates[currentIndex + 1] EXCEPT
                     !.status = "completed", !.uploaded = TRUE]
     IN  /\ ui' = [ui EXCEPT !.activeXhrs = DeleteXhr(@, uf.fileId, currentIndex)]
         /\ uf' = [uf EXCEPT !.chunkStates[currentIndex + 1] = state,
                             !.activeUploads = @ - 1]
         /\ idb' = addUploadedChunk(
                     [idb EXCEPT !.chunks = saveChunkState(@, state)], uf.batch, currentIndex)
         /\ workers' = [workers EXCEPT ![w] = [IdleWorker EXCEPT !.pc = "loop"]]
  /\ UNCHANGED <<run, local, server, rng, hist, rx>>
  /\ UNCHANGED outsideTransfer

\* the failure threshold of uploadFile
FailureThreshold(totalChunks) == Min(5, totalChunks \div 10)

\* processNextChunk's catch without the finally block
chunkFailed_NoRelease(w) ==
  /\ workers[w].xhr \in {"failed", "aborted"}
  /\ LET currentIndex == workers[w].currentIndex
         old == uf.chunkStates[currentIndex + 1]
         failed == [old EXCEPT !.attempts = @ + 1, !.status = "error"]
         exhausted == failed.attempts >= MAX_RETRIES
         tooMany == exhausted /\ uf.failedChunks + 1 > FailureThreshold(Len(uf.chunks))
     IN  /\ ui' = [ui EXCEPT !.activeXhrs = DeleteXhr(@, uf.fileId, currentIndex)]
         /\ idb' = [idb EXCEPT !.chunks = saveChunkState(@, failed)]
         /\ uf' = [uf EXCEPT
                     !.chunkStates[currentIndex + 1] =
                        IF exhausted THEN failed ELSE [failed EXCEPT !.status = "pending"],
                     !.failedChunks = IF exhausted THEN @ + 1 ELSE @,
                     !.chunkIndex = IF exhausted THEN @ ELSE @ - 1]
         /\ workers' = [workers EXCEPT ![w] =
                          [IdleWorker EXCEPT !.pc = IF tooMany THEN "threw" ELSE "loop"]]
  /\ UNCHANGED <<run, local, server, rng, hist, rx>>
  /\ UNCHANGED outsideTransfer

\* uploadChunk rejected (error, timeout, status, abort): processNextChunk's catch
chunkFailed(w) ==
  /\ workers[w].xhr \in {"failed", "aborted"}
  /\ LET currentIndex == workers[w].currentIndex
         old == uf.chunkStates[currentIndex + 1]
         failed == [old EXCEPT !.attempts = @ + 1, !.status = "error"]
         exhausted == failed.attempts >= MAX_RETRIES
         tooMany == exhausted /\ uf.failedChunks + 1 > FailureThreshold(Len(uf.chunks))
     IN  /\ ui' = [ui EXCEPT !.activeXhrs = DeleteXhr(@, uf.fileId, currentIndex)]
         /\ idb' = [idb EXCEPT !.chunks = saveChunkState(@, failed)]
         /\ uf' = [uf EXCEPT
                     !.chunkStates[currentIndex + 1] =
                        IF exhausted THEN failed ELSE [failed EXCEPT !.status = "pending"],
                     !.failedChunks = IF exhausted THEN @ + 1 ELSE @,
                     !.chunkIndex = IF exhausted THEN @ ELSE @ - 1,
                     !.activeUploads = @ - 1]
         /\ workers' = [workers EXCEPT ![w] =
                          [IdleWorker EXCEPT !.pc = IF tooMany THEN "threw" ELSE "loop"]]
  /\ UNCHANGED <<run, local, server, rng, hist, rx>>
  /\ UNCHANGED outsideTransfer

\* uploadFile after Promise.all(workers), and the caller's loop over the files
uploadFileEnd ==
  /\ run.phase = "workers"
  /\ \/ \A w \in Workers : workers[w].pc = "done"
     \/ \E w \in Workers : workers[w].pc = "threw"
  /\ LET threw == \E w \in Workers : workers[w].pc = "threw"
         allCompleted == \A i \in 1..Len(uf.chunkStates) :
                            uf.chunkStates[i].status = "completed"
         failed == threw \/ (~allCompleted /\ ~uf.isPaused)
         last == run.pos >= Len(run.items)
     IN  IF failed
         THEN /\ ui' = HandlerEnd([ui EXCEPT !.files = SetFileStatus(@, uf.fileId, "error")],
                                  run, FALSE)
              /\ run' = NoRun
              /\ idb' = idb
         ELSE IF uf.isPaused
         THEN /\ ui' = HandlerEnd(ui, run, TRUE)
              /\ run' = NoRun
              /\ idb' = idb
         ELSE /\ idb' = [idb EXCEPT !.uploads = saveUploadState(@, uf.batch,
                            [status |-> "completed", uploadedSize |-> uf.encryptedSize])]
              /\ IF last
                 THEN /\ ui' = HandlerEnd(
                                 [ui EXCEPT !.files = SetFileStatus(@, uf.fileId, "completed")],
                                 run, TRUE)
                      /\ run' = NoRun
                 ELSE /\ ui' = [ui EXCEPT !.files = SetFileStatus(@, uf.fileId, "completed")]
                      /\ run' = [run EXCEPT !.pos = @ + 1, !.phase = "file"]
  /\ UNCHANGED <<uf, workers, local, server, rng, hist, rx>>
  /\ UNCHANGED outsideTransfer

\* handlePauseUpload: every registered request aborted, the batch marked paused
handlePauseUpload ==
  /\ ui.isUploading /\ ~ui.isPaused
  /\ hist.pauses < MaxPauses
  /\ workers' = [w \in Workers |->
       IF (\E e \in ui.activeXhrs : e.xhr = w) /\ workers[w].xhr \in {"sent", "ok"}
       THEN [workers[w] EXCEPT !.xhr = "aborted"] ELSE workers[w]]
  /\ ui' = [ui EXCEPT !.isPaused = TRUE, !.activeXhrs = {}]
  /\ idb' = IF ui.batchId # 0
            THEN [idb EXCEPT !.uploads = saveUploadState(@, ui.batchId, [status |-> "paused"])]
            ELSE idb
  /\ hist' = [hist EXCEPT !.pauses = @ + 1]
  /\ UNCHANGED <<run, uf, local, server, rng, rx>>
  /\ UNCHANGED outsideTransfer

\* handleResumeUpload() on the paused page.  The isPaused it reads is the one
\* of the render that showed the Resume button, TRUE: its uploadFile call
\* encrypts, stores the states and starts workers that leave at once, and the
\* loop over the files breaks after the first one
handleResumeUpload ==
  /\ ui.isUploading /\ ui.isPaused
  /\ ui.batchId # 0
  /\ LET todo == SelectSeq(ui.files, LAMBDA f : f.status # "completed")
         marked == [idb EXCEPT !.uploads =
                      saveUploadState(@, ui.batchId, [status |-> "uploading"])]
     IN  IF todo = <<>> \/ ui.encryptionKey = 0
         THEN /\ idb' = marked
              /\ ui' = [ui EXCEPT !.isPaused = FALSE]
              /\ rng' = rng
         ELSE /\ rng.ivs < MaxEncrypts
              /\ LET started == uploadFileStart(todo[1], ui.encryptionKey, ui.batchId, marked)
                 IN  /\ idb' = started.db
                     /\ rng' = [rng EXCEPT !.ivs = @ + 1,
                                           !.aead = @ \o AeadCalls(started.encrypted.calls)]
                     /\ ui' = [ui EXCEPT !.isPaused = FALSE,
                                 !.files = SetFileStatus(@, todo[1].id, "uploading")]
  /\ UNCHANGED <<run, uf, workers, local, server, hist, rx>>
  /\ UNCHANGED outsideTransfer

\* the page is reloaded: React state and running calls are gone, IndexedDB,
\* localStorage and the backend stay; the mount effect lists the uploads
\* that are neither completed nor failed
pageReload ==
  /\ hist.restarts < MaxRestarts
  /\ ui' = FreshPage(getIncompleteUploads(idb.uploads))
  /\ run' = NoRun
  /\ uf' = NoUploadFile
  /\ workers' = [w \in Workers |-> IdleWorker]
  /\ hist' = [hist EXCEPT !.restarts = @ + 1]
  /\ UNCHANGED <<idb, local, server, rng, rx>>
  /\ UNCHANGED outsideTransfer

\* the (fileId, chunkIndex) of the chunk states stored as completed
CompletedChunks(chunks, batchId) ==
  {<<c.fileId, c.chunkIndex>> : c \in {d \in getAllChunks(chunks, batchId) : d.uploaded}}

\* handleResumeUpload(uploadState) on an entry of the resumable list: the key
\* imported from the stored base64 text, one File per metadata entry, built
\* from no content (new File([], name)), then uploadFile for each
handleResumeStored(uploadState) ==
  /\ uploadState \in ui.resumableUploads
  /\ run.kind = "none" /\ WorkersQuiet
  /\ ~ui.isUploading
  /\ LET key == importKey(base64ToArrayBuffer(uploadState.encryptionKey))
         fileItems == [i \in 1..Len(uploadState.metadata) |->
                         UploadFileItem(uploadState.metadata[i].id, <<>>)]
         r == [kind |-> "resume", isPaused |-> ui.isPaused, items |-> fileItems,
               pos |-> 1, key |-> key, batch |-> uploadState.batchId,
               phase |-> "file", shareUrl |-> NoShareLink]
         page == [ui EXCEPT !.isPaused = FALSE, !.isUploading = TRUE,
                            !.batchId = uploadState.batchId]
     IN  IF key = BadDecode
         THEN /\ ui' = HandlerEnd(page, r, FALSE)
              /\ run' = NoRun
              /\ idb' = idb
         ELSE /\ idb' = [idb EXCEPT !.uploads =
                           saveUploadState(@, uploadState.batchId, [status |-> "uploading"])]
              /\ IF fileItems = <<>>
                 THEN /\ ui' = HandlerEnd(
                                 [page EXCEPT !.encryptionKey = key, !.files = fileItems],
                                 r, TRUE)
                      /\ run' = NoRun
                 ELSE /\ ui' = [page EXCEPT !.encryptionKey = key, !.files = fileItems]
                      /\ run' = r
  /\ hist' = [hist EXCEPT !.resumed = TRUE,
                !.resumeFound = CompletedChunks(idb.chunks, uploadState.batchId)]
  /\ UNCHANGED <<uf, workers, local, server, rng, rx>>
  /\ UNCHANGED outsideTransfer

-----------------------------------------------------------------------------
(* The receiver's page: useDownloadManager                                  *)

\* the mount effect of useDownloadManager: batch, key and meta are read from
\* window.location.search; the metadata is first the item file-metadata-<batch>
\* of localStorage (when there is a batch parameter and the item parses),
\* then the decoded meta parameter (when there is one and it decodes); every
\* decoding sits in its own try/catch
StoredMetadata(localStorage, batchParam) ==
  IF batchParam # 0 /\ \E m \in localStorage : m.batchId = batchParam
  THEN (CHOOSE m \in localStorage : m.batchId = batchParam).metadata
  ELSE 0

\* the mount effect with the localStorage item read after the meta parameter
MountEffect_StorageLast(search, localStorage) ==
  LET storedMetadata == StoredMetadata(localStorage, search.batch)
      decodedKey == DecodeKey(search.key)
      parsedMeta == DecodeMetadata(search.meta)
      fromMeta == IF search.meta # 0 /\ ~parsedMeta.threw THEN parsedMeta.value ELSE <<>>
  IN  [ClosedReceiver EXCEPT
         !.status = "idle",
         !.batchId = search.batch,
         !.keyBase64 = IF search.key # 0 /\ decodedKey # BadDecode THEN decodedKey ELSE 0,
         !.metadata = IF storedMetadata # 0 /\ ~JSONparse(storedMetadata).threw
                      THEN JSONparse(storedMetadata).value ELSE fromMeta,
         !.search = search,
         !.storedMetadata = storedMetadata]

MountEffect(search, localStorage) ==
  LET batchParam == search.batch
      keyParam == search.key
      metaParam == search.meta
      storedMetadata == StoredMetadata(localStorage, batchParam)
      fromStorage == IF storedMetadata # 0 /\ ~JSONparse(storedMetadata).threw
                     THEN JSONparse(storedMetadata).value ELSE <<>>
      decodedKey == DecodeKey(keyParam)
      parsedMeta == DecodeMetadata(metaParam)
  IN  [ClosedReceiver EXCEPT
         !.status = "idle",
         !.batchId = batchParam,
         !.keyBase64 = IF keyParam # 0 /\ decodedKey # BadDecode THEN decodedKey ELSE 0,
         !.metadata = IF metaParam # 0 /\ ~parsedMeta.threw THEN parsedMeta.value
                      ELSE fromStorage,
         !.search = search,
         !.storedMetadata = storedMetadata]

\* the share link opened in a browser: the page is fetched from the backend
\* with the link's query string, and the mount effect reads batch, key and
\* meta from window.location.search
openShareLink ==
  /\ ui.shareLink # NoShareLink
  /\ rx.status = "closed"
  /\ server' = [server EXCEPT !.log = @ \cup {Request("GET", "/", 0, 0, ui.shareLink)}]
  /\ rx' = MountEffect(ui.shareLink, local)
  /\ UNCHANGED <<ui, run, uf, workers, idb, local, rng, hist>>
  /\ UNCHANGED outsideTransfer

\* previewBatchInfo -> fetchBatchInfo: GET /api/batch/<batchId>
previewBatchInfo ==
  /\ rx.status = "idle" /\ rx.previewState = "idle"
  /\ rx.batchId # 0 /\ rx.keyBase64 # 0
  /\ server' = [server EXCEPT !.log =
                  @ \cup {Request("GET", "/api/batch", rx.batchId, 0, NoQuery)}]
  /\ rx' = [rx EXCEPT !.previewState =
              IF rx.batchId \in server.batches THEN "success" ELSE "error"]
  /\ UNCHANGED <<ui, run, uf, workers, idb, local, rng, hist>>
  /\ UNCHANGED outsideTransfer

-----------------------------------------------------------------------------
(* Upload, failing requests, page reload, resume from the store, and the    *)
(* receiver opening the share link                                          *)
InitUploads == InitTransfer /\ SplitIdle /\ CryptoIdle

NextTransfer ==
  \/ handleUpload
  \/ handleUploadNoBatch
  \/ uploadFileBegin
  \/ \E w \in Workers : processNextChunk(w)
  \/ \E w \in Workers : UploadChunk(w)
  \/ \E w \in Workers : chunkRequestFails(w)
  \/ \E w \in Workers : chunkUploaded(w)
  \/ \E w \in Workers : chunkFailed(w)
  \/ uploadFileEnd
  \/ pageReload
  \/ \E u \in ui.resumableUploads : handleResumeStored(u)
  \/ openShareLink
  \/ previewBatchInfo

SpecTransfer == InitUploads /\ [][NextTransfer]_vars

(* One file of any length up to MaxFileLen, uploaded without disturbance    *)
InitUpload ==
  /\ \E n \in 0..MaxFileLen :
       /\ ui = [FreshPage({}) EXCEPT !.files = <<UploadFileItem(1, FileContent(n, 1))>>]
       /\ hist = [selected |-> <<UploadFileItem(1, FileContent(n, 1))>>, resumed |-> FALSE,
                  resumeFound |-> {}, resumeSent |-> {}, failures |-> 0, pauses |-> 0,
                  restarts |-> 0]
  /\ run = NoRun /\ uf = NoUploadFile
  /\ workers = [w \in Workers |-> IdleWorker]
  /\ idb = [uploads |-> {}, chunks |-> {}]
  /\ local = {}
  /\ server = [batches |-> {}, chunks |-> {}, log |-> {}]
  /\ rng = [keys |-> 0, ivs |-> 0, aead |-> <<>>]
  /\ rx = ClosedReceiver
  /\ ServicesIdle
  /\ SplitIdle /\ CryptoIdle

NextUpload ==
  \/ handleUpload
  \/ uploadFileBegin
  \/ \E w \in Workers : processNextChunk(w)
  \/ \E w \in Workers : UploadChunk(w)
  \/ \E w \in Workers : chunkUploaded(w)
  \/ uploadFileEnd

SpecUpload == InitUpload /\ [][NextUpload]_vars

(* One file, uploaded with Pause and Resume clicked on the page             *)
InitPause ==
  /\ InitUploads
  /\ Len(ui.files) = 1

NextPause ==
  \/ handleUpload
  \/ uploadFileBegin
  \/ \E w \in Workers : processNextChunk(w)
  \/ \E w \in Workers : UploadChunk(w)
  \/ \E w \in Workers : chunkUploaded(w)
  \/ \E w \in Workers : chunkFailed(w)
  \/ uploadFileEnd
  \/ handlePauseUpload
  \/ handleResumeUpload

SpecPause == InitPause /\ [][NextPause]_vars

-----------------------------------------------------------------------------
(* processDownload                                                          *)
HEAD_PROBES      == 3   \* the 200 HEAD requests of the quick scan
CHUNK_LOOP_LIMIT == 6   \* the 1000 the chunk loop stops at
MaxFetchFailures == 2   \* download requests that do not end in 200 or a plain 404

\* the statuses a GET /api/download/<batch>/<index> can end in besides 200:
\* 404 (no such object, or the storage check failed), 500 (the handler
\* panicked and gin.Recovery answered), 503 (anything in between)
ErrorStatuses == {404, 500, 503}

\* allChunks.push(chunkArrayBuffer)
PushChunk_Front(allChunks, chunkIndex, buffer) ==
  <<[chunkIndex |-> chunkIndex, data |-> buffer]>> \o allChunks

PushChunk(allChunks, chunkIndex, buffer) ==
  Append(allChunks, [chunkIndex |-> chunkIndex, data |-> buffer])

Buffers(allChunks) == [i \in 1..Len(allChunks) |-> allChunks[i].data]
Indices(allChunks) == [i \in 1..Len(allChunks) |-> allChunks[i].chunkIndex]

\* a chunk request and how it ended: the status of the response, or the name
\* of the error fetch rejected with (and no status)
DownloadRequest(chunkIndex, status, thrown) ==
  [chunkIndex |-> chunkIndex, status |-> status, thrown |-> thrown]

\* the catch at the end of processDownload
DownloadError(r) ==
  [r EXCEPT !.status = "error", !.download.pc = "failed"]

\* a loop without the limit on chunkIndex
NextTurn_NoLimit(d) == d

\* the while condition, looked at after chunkIndex moved on
NextTurn(d) ==
  IF d.chunkIndex < CHUNK_LOOP_LIMIT THEN d ELSE [d EXCEPT !.pc = "collected"]

\* processDownload down to the HEAD scan: the argument check, fetchBatchInfo,
\* importEncryptionKey, and the HEAD requests sent
processDownload ==
  /\ rx.status = "idle" /\ rx.download.pc = "idle"
  /\ LET key == importKey(base64ToArrayBuffer(rx.keyBase64))
         probes == {Request("HEAD", "/api/download", rx.batchId, i, NoQuery) :
                      i \in 0..(HEAD_PROBES - 1)}
         info == Request("GET", "/api/batch", rx.batchId, 0, NoQuery)
     IN  IF rx.batchId = 0 \/ rx.keyBase64 = 0
         THEN /\ rx' = DownloadError(rx)
              /\ server' = server
         ELSE IF rx.batchId \notin server.batches \/ key = BadDecode
         THEN /\ rx' = DownloadError(rx)
              /\ server' = [server EXCEPT !.log = @ \cup {info}]
         ELSE /\ rx' = [rx EXCEPT !.status = "downloading",
                          !.download = [NoDownload EXCEPT !.pc = "scan", !.key = key,
                                          !.heads = 0..(HEAD_PROBES - 1)]]
              /\ server' = [server EXCEPT !.log = @ \cup {info} \cup probes]
  /\ UNCHANGED <<ui, run, uf, workers, idb, local, rng, hist>>
  /\ UNCHANGED outsideTransfer

\* one HEAD request of the scan is answered (CheckChunk: 200 when the object
\* exists, 404 otherwise) or fails; the loop starts after the last of them
headProbeDone(i, failed) ==
  /\ rx.download.pc = "scan" /\ i \in rx.download.heads
  /\ failed => rx.download.failures < MaxFetchFailures
  /\ LET d == rx.download
         ok == ~failed /\ HasObject(server.chunks, rx.batchId, i)
         counted == [d EXCEPT
                       !.totalDetectedChunks = IF ok THEN Max(@, i + 1) ELSE @,
                       !.heads = @ \ {i},
                       !.headOrder = Append(@, i),
                       !.failures = IF failed THEN @ + 1 ELSE @]
     IN  rx' = [rx EXCEPT !.download =
                  IF counted.heads = {} THEN [counted EXCEPT !.pc = "loop"] ELSE counted]
  /\ UNCHANGED <<ui, run, uf, workers, idb, local, server, rng, hist>>
  /\ UNCHANGED outsideTransfer

\* one turn of the chunk loop, the backend's DownloadChunk answering: the
\* object, or 404 when there is none
DownloadChunk ==
  /\ rx.download.pc = "loop"
  /\ LET d == rx.download
         request == Request("GET", "/api/download", rx.batchId, d.chunkIndex, NoQuery)
     IN  /\ server' = [server EXCEPT !.log = @ \cup {request}]
         /\ IF ~HasObject(server.chunks, rx.batchId, d.chunkIndex)
            THEN rx' = [rx EXCEPT !.download =
                          [d EXCEPT !.pc = "collected",
                             !.requests = Append(@, DownloadRequest(d.chunkIndex, 404, "none"))]]
            ELSE LET chunkArrayBuffer == GetObject(server.chunks, rx.batchId, d.chunkIndex)
                     asked == [d EXCEPT !.requests =
                                 Append(@, DownloadRequest(d.chunkIndex, 200, "none"))]
                 IN  IF Len(chunkArrayBuffer) = 0
                     THEN rx' = [rx EXCEPT !.download = NextTurn(
                                   [asked EXCEPT !.hasErrors = TRUE, !.chunkIndex = @ + 1])]
                     ELSE rx' = [rx EXCEPT !.download = NextTurn(
                                   [asked EXCEPT
                                      !.allChunks = PushChunk(@, d.chunkIndex, chunkArrayBuffer),
                                      !.chunkIndex = @ + 1])]
  /\ UNCHANGED <<ui, run, uf, workers, idb, local, rng, hist>>
  /\ UNCHANGED outsideTransfer

\* one turn of the chunk loop, the request answered with an error status
chunkFetchRejected(status) ==
  /\ rx.download.pc = "loop"
  /\ rx.download.failures < MaxFetchFailures
  /\ LET d == rx.download
         request == Request("GET", "/api/download", rx.batchId, d.chunkIndex, NoQuery)
         asked == [d EXCEPT !.requests = Append(@, DownloadRequest(d.chunkIndex, status, "none")),
                            !.failures = @ + 1]
     IN  /\ server' = [server EXCEPT !.log = @ \cup {request}]
         /\ rx' = [rx EXCEPT !.download =
                     IF status = 404 \/ (d.chunkIndex > 0 /\ status = 500)
                     THEN [asked EXCEPT !.pc = "collected"]
                     ELSE NextTurn([asked EXCEPT !.hasErrors = TRUE, !.chunkIndex = @ + 1])]
  /\ UNCHANGED <<ui, run, uf, workers, idb, local, rng, hist>>
  /\ UNCHANGED outsideTransfer

\* one turn of the chunk loop, the 60-second timer aborting the request
chunkFetchTimeout ==
  /\ rx.download.pc = "loop"
  /\ rx.download.failures < MaxFetchFailures
  /\ LET d == rx.download
         asked == [d EXCEPT !.requests = Append(@, DownloadRequest(d.chunkIndex, 0, "AbortError")),
                            !.failures = @ + 1, !.hasErrors = TRUE]
     IN  rx' = IF Len(d.allChunks) > 0
               THEN [rx EXCEPT !.download = [asked EXCEPT !.pc = "collected"]]
               ELSE DownloadError([rx EXCEPT !.download = asked])
  /\ UNCHANGED <<ui, run, uf, workers, idb, local, server, rng, hist>>
  /\ UNCHANGED outsideTransfer

\* one turn of the chunk loop, fetch rejecting with a TypeError
chunkFetchNetworkError ==
  /\ rx.download.pc = "loop"
  /\ rx.download.failures < MaxFetchFailures
  /\ LET d == rx.download
         asked == [d EXCEPT !.requests = Append(@, DownloadRequest(d.chunkIndex, 0, "TypeError")),
                            !.failures = @ + 1]
     IN  rx' = IF Len(d.allChunks) > 0
               THEN [rx EXCEPT !.download = [asked EXCEPT !.pc = "collected",
                                                          !.hasErrors = TRUE]]
               ELSE DownloadError([rx EXCEPT !.download = asked])
  /\ UNCHANGED <<ui, run, uf, workers, idb, local, server, rng, hist>>
  /\ UNCHANGED outsideTransfer

\* the loop left: nothing downloaded is an error, otherwise allChunks goes to
\* decryptChunkedFile and, when that throws, to batchDecryptChunks
decryptDownload ==
  /\ rx.download.pc = "collected"
  /\ LET d == rx.download
         decrypted == processDownloadDecrypt(Buffers(d.allChunks), d.key)
     IN  rx' = IF Len(d.allChunks) = 0
               THEN DownloadError(rx)
               ELSE [rx EXCEPT !.status = decrypted.status, !.data = decrypted.data,
                               !.download.pc = "done",
                               !.download.handed = Indices(d.allChunks)]
  /\ UNCHANGED <<ui, run, uf, workers, idb, local, server, rng, hist>>
  /\ UNCHANGED outsideTransfer

(* One file uploaded without disturbance, the share link opened and the     *)
(* batch downloaded, with requests of the download failing                  *)
InitDownload == InitUpload

NextDownload ==
  \/ handleUpload
  \/ uploadFileBegin
  \/ \E w \in Workers : processNextChunk(w)
  \/ \E w \in Workers : UploadChunk(w)
  \/ \E w \in Workers : chunkUploaded(w)
  \/ uploadFileEnd
  \/ openShareLink
  \/ processDownload
  \/ \E i \in 0..(HEAD_PROBES - 1) : \E failed \in BOOLEAN : headProbeDone(i, failed)
  \/ DownloadChunk
  \/ \E status \in ErrorStatuses : chunkFetchRejected(status)
  \/ chunkFetchTimeout
  \/ chunkFetchNetworkError
  \/ decryptDownload

SpecDownload == InitDownload /\ [][NextDownload]_vars

\* the same with every request answered in the end (a response, a network
\* error or the abort timer) and every continuation run
DownloadFairness ==
  /\ WF_vars(processDownload)
  /\ \A i \in 0..(HEAD_PROBES - 1) : WF_vars(headProbeDone(i, FALSE))
  /\ WF_vars(DownloadChunk)
  /\ WF_vars(decryptDownload)

SpecDownloadFair == InitDownload /\ [][NextDownload]_vars /\ DownloadFairness

-----------------------------------------------------------------------------
(* One file uploaded with chunk requests failing often enough for a chunk   *)
(* to use up its attempts                                                   *)
MaxRejections == 3   \* chunk requests that fail while the file is uploaded

\* uploadChunk's promise rejected: xhr.onerror, xhr.ontimeout, a status
\* outside 2xx
chunkRequestRejected(w) ==
  /\ workers[w].xhr \in {"sent", "ok"}
  /\ hist.failures < MaxRejections
  /\ workers' = [workers EXCEPT ![w].xhr = "failed"]
  /\ hist' = [hist EXCEPT !.failures = @ + 1]
  /\ UNCHANGED <<ui, run, uf, idb, local, server, rng, rx>>
  /\ UNCHANGED outsideTransfer

InitRetry ==
  /\ InitUploads
  /\ Len(ui.files) = 1

NextRetry ==
  \/ handleUpload
  \/ uploadFileBegin
  \/ \E w \in Workers : processNextChunk(w)
  \/ \E w \in Workers : UploadChunk(w)
  \/ \E w \in Workers : chunkRequestRejected(w)
  \/ \E w \in Workers : chunkUploaded(w)
  \/ \E w \in Workers : chunkFailed(w)
  \/ uploadFileEnd

SpecRetry == InitRetry /\ [][NextRetry]_vars

\* the same uploads with the event loop running every callback that is
\* ready: a worker at the top of its loop runs its turn, a request that was
\* sent is answered and its promise is settled in processNextChunk, and
\* uploadFile goes on after Promise.all(workers)
RetryFairness ==
  /\ \A w \in Workers : WF_vars(processNextChunk(w))
  /\ \A w \in Workers : WF_vars(UploadChunk(w))
  /\ \A w \in Workers : WF_vars(chunkUploaded(w))
  /\ \A w \in Workers : WF_vars(chunkFailed(w))
  /\ WF_vars(uploadFileBegin)
  /\ WF_vars(uploadFileEnd)

SpecRetryFair == InitRetry /\ [][NextRetry]_vars /\ RetryFairness

-----------------------------------------------------------------------------
(* The chunk lists a download can collect from the backend's store: the     *)
(* chunks of a file as uploaded, with the chunk of another file of the      *)
(* batch stored under one of the indices, or with a chunk left out          *)
MaxOtherLen == 1     \* longest other file of the batch

\* Service.UploadChunk for a chunk of another file of the same batch: the
\* object batchID/chunkIndex is replaced
OverwriteChunkStep ==
  /\ cpc = "split" /\ ~cTampered
  /\ \E other \in BlobsUpTo(MaxOtherLen) : \E iv \in RandomIvs :
       LET otherChunks == prepareFileChunks(encryptFile(other, cKey, iv).blob, CHUNK_SIZE)
       IN  \E c \in 1..Min(Len(cChunks), Len(otherChunks)) :
             /\ otherChunks[c] # cChunks[c]
             /\ cChunks' = [cChunks EXCEPT ![c] = otherChunks[c]]
  /\ cTampered' = TRUE
  /\ UNCHANGED <<cpc, cFile, cKey, cEnc, cOut>>
  /\ UNCHANGED outsideCrypto

\* processDownload's chunk loop moving past an index (an error status, an
\* empty body) or stopping before the last chunk (a timeout, a network error)
DropChunkStep ==
  /\ cpc = "split" /\ ~cTampered
  /\ Len(cChunks) >= 2
  /\ \E c \in 1..Len(cChunks) :
       cChunks' = SubSeq(cChunks, 1, c - 1) \o SubSeq(cChunks, c + 1, Len(cChunks))
  /\ cTampered' = TRUE
  /\ UNCHANGED <<cpc, cFile, cKey, cEnc, cOut>>
  /\ UNCHANGED outsideCrypto

InitReassemble == InitCrypto /\ SplitIdle /\ TransferIdle

NextReassemble ==
  \/ EncryptStep
  \/ SplitStep
  \/ OverwriteChunkStep
  \/ DropChunkStep
  \/ DecryptStep
  \/ FinishDownloadStep

SpecReassemble == InitReassemble /\ [][NextReassemble]_vars

-----------------------------------------------------------------------------
(* The share link as it arrives: whole, or with parameters removed or       *)
(* damaged on the way, opened in the sender's browser or in another one     *)

\* what can happen to a parameter on the way: nothing, it is dropped, its
\* text is no longer base64, its bytes no longer decompress; the meta
\* parameter can also carry text that is not JSON, or another metadata array
KeyDamage == {"whole", "missing", "notBase64", "notZlib"}
MetaDamage == KeyDamage \cup {"notJson", "other"}

OtherMetadata ==
  <<[id |-> 1, name |-> 1, type |-> "application/octet-stream", size |-> 0]>>

Damaged(param, damage) ==
  CASE damage = "whole" -> param
    [] damage = "missing" -> 0
    [] damage = "notBase64" -> param + 1
    [] damage = "notZlib" -> param - 2
    [] damage = "notJson" -> arrayBufferToBase64(zlibSync(2))
    [] damage = "other" -> EncodeMetadata(OtherMetadata)

\* the page loaded with a query string derived from the share link, in the
\* sender's browser (localStorage holds file-metadata-<batch>) or in one whose
\* localStorage is empty
openLink(hasBatch, keyDamage, metaDamage, sameBrowser) ==
  /\ ui.shareLink # NoShareLink
  /\ rx.status = "closed"
  /\ LET search == [batch |-> IF hasBatch THEN ui.shareLink.batch ELSE 0,
                    key |-> Damaged(ui.shareLink.key, keyDamage),
                    meta |-> Damaged(ui.shareLink.meta, metaDamage)]
         localStorage == IF sameBrowser THEN local ELSE {}
     IN  /\ server' = [server EXCEPT !.log = @ \cup {Request("GET", "/", 0, 0, search)}]
         /\ rx' = MountEffect(search, localStorage)
  /\ UNCHANGED <<ui, run, uf, workers, idb, local, rng, hist>>
  /\ UNCHANGED outsideTransfer

(* Batches of up to MaxFiles files uploaded without disturbance, and the    *)
(* link opened                                                              *)
InitShareLink == InitUploads

NextShareLink ==
  \/ handleUpload
  \/ uploadFileBegin
  \/ \E w \in Workers : processNextChunk(w)
  \/ \E w \in Workers : UploadChunk(w)
  \/ \E w \in Workers : chunkUploaded(w)
  \/ uploadFileEnd
  \/ openShareLink
  \/ \E hasBatch \in BOOLEAN : \E keyDamage \in KeyDamage : \E metaDamage \in MetaDamage :
       \E sameBrowser \in BOOLEAN : openLink(hasBatch, keyDamage, metaDamage, sameBrowser)

SpecShareLink == InitShareLink /\ [][NextShareLink]_vars

-----------------------------------------------------------------------------
(* The backend's handlers over an object storage whose calls can fail       *)
maxRetries       == 3   \* UploadObject: retries after the first attempt
firstRetryDelay  == 2   \* UploadObject: seconds slept before the first retry
MaxRequests      == 4   \* requests the backend receives
MaxStorageFaults == 4   \* storage calls that fail
BackendBatches == {1}
BackendIndices == {0, 1}
ChunkBodies == 0..2     \* the uploaded part: 0 is a part of zero bytes

\* the storage calls of Service.DownloadChunk that can fail
DownloadFaults == {"none", "CheckObjectExists", "GetObjectInfo", "DownloadObject"}

\* a request answered: the status, the PutObject attempts made and the sleeps
\* between them, the bytes the object held when the request arrived (0: no
\* such object), the body sent and the storage call that failed
Answer(call, status, stored, body, storage) ==
  [handler |-> call.handler, batchId |-> call.batchId, chunkIndex |-> call.chunkIndex,
   status |-> status, attempts |-> call.attempt + 1, slept |-> call.slept,
   existed |-> stored # 0, stored |-> stored, body |-> body, storage |-> storage]

\* ChunkController.UploadChunk down to UploadObject's first PutObject: the
\* part is checked for zero size and read through a bufio.Reader, which is
\* what Service.UploadChunk hands to UploadObject
UploadChunkHandler(batchId, chunkIndex, data) ==
  /\ be.call.handler = "none" /\ be.requests < MaxRequests
  /\ LET call == [NoCall EXCEPT !.handler = "UploadChunk", !.batchId = batchId,
                                !.chunkIndex = chunkIndex, !.data = data,
                                !.seekable = FALSE, !.retryDelay = firstRetryDelay]
     IN  be' = IF data = 0
               THEN [be EXCEPT !.requests = @ + 1,
                               !.answered = @ \cup {Answer(call, 400, 0, 0, "none")}]
               ELSE [be EXCEPT !.requests = @ + 1, !.call = call]
  /\ UNCHANGED outsideBackend

\* FileController.UploadFile down to UploadObject's first PutObject: the
\* multipart.File itself, which can seek, is handed to UploadObject; the
\* object is files/<fileID>
UploadFileHandler(data) ==
  /\ be.call.handler = "none" /\ be.requests < MaxRequests
  /\ data # 0
  /\ be' = [be EXCEPT !.requests = @ + 1,
                      !.call = [NoCall EXCEPT !.handler = "UploadFile", !.batchId = 0,
                                  !.chunkIndex = be.requests + 1, !.data = data,
                                  !.seekable = TRUE, !.retryDelay = firstRetryDelay]]
  /\ UNCHANGED outsideBackend

\* PutObject returns without error: UploadObject returns nil and the handler
\* answers 200
PutObjectDone ==
  /\ be.call.handler # "none"
  /\ LET call == be.call
     IN  be' = [be EXCEPT
                  !.objects = StoreObject(@, call.batchId, call.chunkIndex, call.data),
                  !.answered = @ \cup {Answer(call, 200, 0, 0, "none")},
                  !.call = NoCall]
  /\ UNCHANGED outsideBackend

\* PutObject returns an error: after the last attempt, or with a reader that
\* is no io.Seeker, UploadObject gives up and the handler answers 500;
\* otherwise it rewinds the reader, sleeps retryDelay and doubles it
PutObjectFailed ==
  /\ be.call.handler # "none"
  /\ be.faults < MaxStorageFaults
  /\ LET call == be.call
     IN  be' = IF call.attempt = maxRetries \/ ~call.seekable
               THEN [be EXCEPT !.faults = @ + 1,
                               !.answered = @ \cup {Answer(call, 500, 0, 0, "PutObject")},
                               !.call = NoCall]
               ELSE [be EXCEPT !.faults = @ + 1,
                               !.call = [call EXCEPT !.attempt = @ + 1,
                                           !.slept = Append(@, call.retryDelay),
                                           !.retryDelay = 2 * @]]
  /\ UNCHANGED outsideBackend

\* ChunkController.DownloadChunk over Service.DownloadChunk: an error of the
\* existence check, a missing object and an error of DownloadObject all come
\* back as an error and are answered 404; when only GetObjectInfo failed info
\* is nil and info.Size panics, which gin.Recovery answers with 500
DownloadChunkHandler(batchId, chunkIndex, fault) ==
  /\ be.call.handler = "none" /\ be.requests < MaxRequests
  /\ fault # "none" => be.faults < MaxStorageFaults
  /\ LET call == [NoCall EXCEPT !.handler = "DownloadChunk", !.batchId = batchId,
                                !.chunkIndex = chunkIndex]
         exists == HasObject(be.objects, batchId, chunkIndex)
         reached == IF fault = "CheckObjectExists" \/ exists THEN fault ELSE "none"
         status == CASE reached = "CheckObjectExists" -> 404
                     [] ~exists -> 404
                     [] reached = "DownloadObject" -> 404
                     [] reached = "GetObjectInfo" -> 500
                     [] OTHER -> 200
         stored == IF exists THEN GetObject(be.objects, batchId, chunkIndex) ELSE 0
         body == IF status = 200 THEN stored ELSE 0
     IN  be' = [be EXCEPT !.requests = @ + 1,
                          !.faults = IF reached # "none" THEN @ + 1 ELSE @,
                          !.answered = @ \cup {Answer(call, status, stored, body, reached)}]
  /\ UNCHANGED outsideBackend

InitBackend == TransferIdle /\ SplitIdle /\ CryptoIdle

NextBackend ==
  \/ \E batchId \in BackendBatches : \E chunkIndex \in BackendIndices :
       \E data \in ChunkBodies : UploadChunkHandler(batchId, chunkIndex, data)
  \/ \E data \in ChunkBodies : UploadFileHandler(data)
  \/ PutObjectDone
  \/ PutObjectFailed
  \/ \E batchId \in BackendBatches : \E chunkIndex \in BackendIndices :
       \E fault \in DownloadFaults : DownloadChunkHandler(batchId, chunkIndex, fault)

SpecBackend == InitBackend /\ [][NextBackend]_vars

-----------------------------------------------------------------------------
(* The chunk upload route with its path parameter as the client sent it: a  *)
(* string, here over a few characters.  Two routers serve the route: the    *)
(* one of router.SetupRoutes with ChunkController.UploadChunk and the one   *)
(* of api.NewHandler with Handler.UploadChunk.                              *)
MaxIndexLen == 2        \* characters of the :chunkIndex path parameter
IndexChars == {"-", "0", "1", "."}
ChunkIndexStrs == UNION {[1..n -> IndexChars] : n \in 1..MaxIndexLen}

IsDigit(c) == c \in {"0", "1"}
DigitValue(c) == IF c = "1" THEN 1 ELSE 0

RECURSIVE Decimal(_)
Decimal(s) ==
  IF s = <<>> THEN 0
  ELSE 10 * Decimal(SubSeq(s, 1, Len(s) - 1)) + DigitValue(s[Len(s)])

\* strconv.Atoi: an optional sign, then at least one digit and digits only
Atoi(s) ==
  LET signed == s # <<>> /\ s[1] \in {"-", "+"}
      digits == IF signed THEN Tail(s) ELSE s
  IN  IF digits = <<>> \/ \E i \in 1..Len(digits) : ~IsDigit(digits[i])
      THEN [err |-> TRUE, value |-> 0]
      ELSE [err |-> FALSE,
            value |-> IF signed /\ s[1] = "-" THEN 0 - Decimal(digits) ELSE Decimal(digits)]

\* Service.ParseChunkIndex: Atoi, then the check for a negative index
ParseChunkIndex(chunkIndexStr) ==
  LET parsed == Atoi(chunkIndexStr)
  IN  IF parsed.err THEN [err |-> TRUE, value |-> 0]
      ELSE IF parsed.value < 0 THEN [err |-> TRUE, value |-> 0]
      ELSE parsed

\* ChunkController.UploadChunk from the path parameters on: the index goes
\* through ParseChunkIndex, the part is checked for zero size, and the rest is
\* Service.UploadChunk with a bufio.Reader
ChunkControllerUploadChunk(batchId, chunkIndexStr, data) ==
  /\ be.call.handler = "none" /\ be.requests < MaxRequests
  /\ LET parsed == ParseChunkIndex(chunkIndexStr)
         call == [NoCall EXCEPT !.handler = "UploadChunk", !.batchId = batchId,
                                !.chunkIndex = parsed.value, !.data = data,
                                !.seekable = FALSE, !.retryDelay = firstRetryDelay]
         request == [via |-> "controllers", batchId |-> batchId,
                     chunkIndexStr |-> chunkIndexStr, data |-> data, status |-> 0]
     IN  be' = IF parsed.err \/ data = 0
               THEN [be EXCEPT !.requests = @ + 1,
                               !.answered = @ \cup {Answer(call, 400, 0, 0, "none")},
                               !.request = [request EXCEPT !.status = 400]]
               ELSE [be EXCEPT !.requests = @ + 1, !.call = call, !.request = request]
  /\ UNCHANGED outsideBackend

\* Handler.UploadChunk from the path parameters on: the index goes through
\* strconv.Atoi alone, the object name is made from it, the part is checked
\* for zero size and handed to UploadObject through a bufio.Reader
HandlerUploadChunk(batchId, chunkIndexStr, data) ==
  /\ be.call.handler = "none" /\ be.requests < MaxRequests
  /\ LET parsed == Atoi(chunkIndexStr)
         call == [NoCall EXCEPT !.handler = "UploadChunk", !.batchId = batchId,
                                !.chunkIndex = parsed.value, !.data = data,
                                !.seekable = FALSE, !.retryDelay = firstRetryDelay]
         request == [via |-> "api", batchId |-> batchId,
                     chunkIndexStr |-> chunkIndexStr, data |-> data, status |-> 0]
     IN  be' = IF parsed.err \/ data = 0
               THEN [be EXCEPT !.requests = @ + 1,
                               !.answered = @ \cup {Answer(call, 400, 0, 0, "none")},
                               !.request = [request EXCEPT !.status = 400]]
               ELSE [be EXCEPT !.requests = @ + 1, !.call = call, !.request = request]
  /\ UNCHANGED outsideBackend

NextValidate ==
  \/ \E batchId \in BackendBatches : \E chunkIndexStr \in ChunkIndexStrs :
       \E data \in ChunkBodies : ChunkControllerUploadChunk(batchId, chunkIndexStr, data)
  \/ \E batchId \in BackendBatches : \E chunkIndexStr \in ChunkIndexStrs :
       \E data \in ChunkBodies : HandlerUploadChunk(batchId, chunkIndexStr, data)
  \/ PutObjectDone
  \/ PutObjectFailed

SpecValidate == InitBackend /\ [][NextValidate]_vars

-----------------------------------------------------------------------------
(* UploadStore on its own: calls from several workers running concurrently, *)
(* the clock, and the retention cleanup.  Every IndexedDB transaction is    *)
(* atomic; a call that awaits between two transactions can be overtaken     *)
(* there by another call.  A transaction commits by itself as soon as the   *)
(* code awaits something that is not a request of that transaction.         *)
RETENTION_WINDOW == 2   \* the 7 days of cleanupOldUploads, in clock ticks
MaxNow      == 3        \* clock ticks
MaxWrites   == 3        \* calls that write to the store
MaxCleanups == 1        \* cleanupOldUploads calls
MaxDeletes  == 2        \* deleteUploadState calls of resetUpload and the delete button
StoreBatches == {1, 2}

\* the partial states saveUploadState is called with
SavedStates == {[status |-> "uploading"], [uploadedSize |-> 1]}

\* the chunk states saveChunkState is called with: chunk 0 of file 1
StoreChunkState(batchId, status, attempts) ==
  [batchId |-> batchId, fileId |-> 1, chunkIndex |-> 0, uploaded |-> status = "completed",
   size |-> 1, status |-> status, attempts |-> attempts]
SavedChunkStates ==
  {StoreChunkState(b, "uploading", 0) : b \in StoreBatches}
    \cup {StoreChunkState(b, "error", 1) : b \in StoreBatches}
    \cup {StoreChunkState(b, "completed", 0) : b \in StoreBatches}

\* {...existingState, ...state}
Merge(existingState, state) ==
  [f \in DOMAIN existingState |->
     IF f \in DOMAIN state THEN state[f] ELSE existingState[f]]

\* saveUploadState at time now: one readwrite transaction that reads the
\* record or makes the default one, spreads state over it, stamps updatedAt
\* and puts it back
saveUploadStateAt(uploads, batchId, state, now) ==
  LET existingState ==
        IF HasUploadState(uploads, batchId) THEN getUploadState(uploads, batchId)
        ELSE [batchId |-> batchId, fileIds |-> <<>>, encryptionKey |-> 0, totalSize |-> 0,
              uploadedSize |-> 0, status |-> "pending", createdAt |-> now,
              updatedAt |-> now, metadata |-> <<>>]
      updatedState == [Merge(existingState, state) EXCEPT !.updatedAt = now]
  IN  {u \in uploads : u.batchId # batchId} \cup {updatedState}

\* deleteUploadState: the upload state is deleted inside the transaction; the
\* keys are then read with db.getAllKeys, outside it, and the transaction
\* commits meanwhile, so that the first chunkStore.delete throws: the call
\* rejects when the batch has chunk states, and no chunk state is deleted
deleteUploadState(db, batchId) ==
  [uploads |-> {u \in db.uploads : u.batchId # batchId},
   chunks |-> db.chunks,
   threw |-> \E c \in db.chunks : c.batchId = batchId]

\* the loop of cleanupOldUploads over getAll(), which is in key order; a
\* deleteUploadState that rejects ends it
RECURSIVE cleanupLoop(_, _, _)
cleanupLoop(db, allUploads, sevenDaysAgo) ==
  IF allUploads = {} THEN [uploads |-> db.uploads, chunks |-> db.chunks, threw |-> FALSE]
  ELSE LET upload == CHOOSE u \in allUploads : \A v \in allUploads : u.batchId <= v.batchId
           rest == allUploads \ {upload}
       IN  IF upload.updatedAt < sevenDaysAgo
           THEN LET deleted == deleteUploadState(db, upload.batchId)
                IN  IF deleted.threw THEN deleted
                    ELSE cleanupLoop(deleted, rest, sevenDaysAgo)
           ELSE cleanupLoop(db, rest, sevenDaysAgo)

\* what a call wrote, for the record: the store, the key, the fields and the
\* time
Written(store, batchId, fileId, chunkIndex, state, now) ==
  [store |-> store, batchId |-> batchId, fileId |-> fileId, chunkIndex |-> chunkIndex,
   state |-> state, at |-> now]

ClockTick ==
  /\ st.now < MaxNow
  /\ st' = [st EXCEPT !.now = @ + 1]
  /\ UNCHANGED outsideStore

SaveUploadStateCall(batchId, state) ==
  /\ Len(st.writes) < MaxWrites
  /\ st' = [st EXCEPT
              !.uploads = saveUploadStateAt(@, batchId, state, st.now),
              !.writes = Append(@, Written("upload-state", batchId, 0, 0, state, st.now))]
  /\ UNCHANGED outsideStore

\* saveChunkState: one put of the whole record; a worker saves chunk states
\* of a batch whose upload state uploadFile has saved
SaveChunkStateCall(state) ==
  /\ Len(st.writes) < MaxWrites
  /\ HasUploadState(st.uploads, state.batchId)
  /\ st' = [st EXCEPT
              !.chunks = saveChunkState(@, state),
              !.writes = Append(@, Written("chunk-state", state.batchId, state.fileId,
                                           state.chunkIndex, state, st.now))]
  /\ UNCHANGED outsideStore

\* addUploadedChunk down to the end of getAllChunks: without an upload state
\* it returns, without a matching chunk state it has nothing to save
AddUploadedChunkRead(batchId, chunkIndex) ==
  /\ Len(st.writes) + Cardinality(st.calls) < MaxWrites
  /\ ~\E call \in st.calls : call.batchId = batchId /\ call.chunkIndex = chunkIndex
  /\ HasUploadState(st.uploads, batchId)
  /\ \E c \in getAllChunks(st.chunks, batchId) : c.chunkIndex = chunkIndex
  /\ LET matching == {c \in getAllChunks(st.chunks, batchId) : c.chunkIndex = chunkIndex}
         matchingChunk == CHOOSE c \in matching : \A d \in matching : c.fileId <= d.fileId
     IN  st' = [st EXCEPT !.calls = @ \cup {[batchId |-> batchId, chunkIndex |-> chunkIndex,
                                              matchingChunk |-> matchingChunk]}]
  /\ UNCHANGED outsideStore

\* addUploadedChunk's saveChunkState({...matchingChunk, uploaded: true,
\* status: 'completed'}): the record read earlier is put back whole
AddUploadedChunkPut(batchId, chunkIndex) ==
  /\ \E call \in st.calls : call.batchId = batchId /\ call.chunkIndex = chunkIndex
  /\ LET call == CHOOSE c \in st.calls : c.batchId = batchId /\ c.chunkIndex = chunkIndex
         state == [call.matchingChunk EXCEPT !.uploaded = TRUE, !.status = "completed"]
     IN  st' = [st EXCEPT
                  !.chunks = saveChunkState(@, state),
                  !.calls = @ \ {call},
                  !.writes = Append(@, Written("chunk-state", state.batchId, state.fileId,
                                       state.chunkIndex,
                                       [uploaded |-> TRUE, status |-> "completed"], st.now))]
  /\ UNCHANGED outsideStore

CleanupOldUploadsCall ==
  /\ st.cleanups < MaxCleanups
  /\ LET sevenDaysAgo == st.now - RETENTION_WINDOW
         cleaned == cleanupLoop(st, st.uploads, sevenDaysAgo)
     IN  st' = [st EXCEPT !.uploads = cleaned.uploads, !.chunks = cleaned.chunks,
                          !.threw = cleaned.threw, !.cleanups = @ + 1]
  /\ UNCHANGED outsideStore

InitStore == TransferIdle /\ SplitIdle /\ CryptoIdle

NextStore ==
  \/ ClockTick
  \/ \E batchId \in StoreBatches : \E state \in SavedStates : SaveUploadStateCall(batchId, state)
  \/ \E state \in SavedChunkStates : SaveChunkStateCall(state)
  \/ \E batchId \in StoreBatches : AddUploadedChunkRead(batchId, 0)
  \/ \E batchId \in StoreBatches : AddUploadedChunkPut(batchId, 0)
  \/ CleanupOldUploadsCall

SpecStore == InitStore /\ [][NextStore]_vars

\* resetUpload and handleDeleteResumableUpload: deleteUploadState(batchId)
\* inside a try whose catch only logs; the call is recorded in deletes
DeleteUploadStateCall(batchId) ==
  /\ Len(st.deletes) < MaxDeletes
  /\ LET deleted == deleteUploadState(st, batchId)
     IN  st' = [st EXCEPT !.uploads = deleted.uploads, !.chunks = deleted.chunks,
                          !.threw = deleted.threw, !.deletes = Append(@, batchId)]
  /\ UNCHANGED outsideStore

NextDelete ==
  \/ ClockTick
  \/ \E batchId \in StoreBatches : \E state \in SavedStates : SaveUploadStateCall(batchId, state)
  \/ \E state \in SavedChunkStates : SaveChunkStateCall(state)
  \/ \E batchId \in StoreBatches : AddUploadedChunkRead(batchId, 0)
  \/ \E batchId \in StoreBatches : AddUploadedChunkPut(batchId, 0)
  \/ \E batchId \in StoreBatches : DeleteUploadStateCall(batchId)

SpecDelete == InitStore /\ [][NextDelete]_vars
-----------------------------------------------------------------------------
InitSplitter == InitSplit /\ CryptoIdle /\ TransferIdle
SpecSplit == InitSplitter /\ [][SplitBlob]_vars

NextCrypto ==
  \/ EncryptStep
  \/ SplitStep
  \/ TamperStep
  \/ DecryptStep
  \/ FinishDownloadStep

InitPipeline == InitCrypto /\ SplitIdle /\ TransferIdle
SpecCrypto == InitPipeline /\ [][NextCrypto]_vars

-----------------------------------------------------------------------------
(* Claims                                                                   *)

\* C1: for every file and key, encryptFile, prepareFileChunks at the
\* configured chunk size and decryptChunkedFile over all chunks in index
\* order give back the file.
C1_EncryptDecryptIdentity ==
  (cpc \in {"decrypted", "done"} /\ ~cTampered) => cOut.chunked = Ok(cFile)

\* C2: encryptFile makes exactly one AEAD encrypt call per file, over the
\* whole plaintext, whatever the file size.
C2_SingleAeadCall ==
  (cpc # "input" /\ cpc # "off") =>
     (Len(cEnc.calls) = 1 /\ cEnc.calls[1].plain = cFile)

\* C3: no (key, nonce) pair is used by two AEAD encrypt calls made while
\* uploading: the calls of the first upload, of the other files of the batch,
\* of a resume, and of the segments of one large file.
C3_NoNonceReuse ==
  \A i, j \in 1..Len(rng.aead) : i # j => rng.aead[i] # rng.aead[j]

\* C4: when one block of one chunk of the ciphertext stream is altered, the
\* download's decryption (decryptChunkedFile, then batchDecryptChunks) ends
\* in status 'error' and never in 'ready'.
C4_TamperDetected ==
  (cpc = "done" /\ cTampered) =>
     (cOut.download.status = "error" /\ ~cOut.chunked.ok)

C4_Witness ==
  /\ cpc = "done" /\ cTampered
  /\ Len(cChunks) >= 3
  /\ cOut.download.status = "error"

\* C5: no request the backend receives (batch creation, chunk upload, batch
\* info, the page load of the share link) carries the key or a value the
\* key can be decoded from.
KeyDecodedFrom(text) ==
  importKey(base64ToArrayBuffer(unzlibSync(base64ToArrayBuffer(text))))
C5_KeyNeverSent ==
  \A request \in server.log :
     /\ request.query.key \notin 1..rng.keys
     /\ KeyDecodedFrom(request.query.key) \notin 1..rng.keys

\* C6: concatenating the chunks prepareFileChunks returns, in order, gives
\* the blob back, for every blob and every chunk size > 0.
C6_SplitRoundTrip ==
  spc = "split" => Concat(sChunks) = sBlob

C6_Witness ==
  /\ spc = "split" /\ Len(sChunks) >= 2 /\ Len(sBlob) % sSize # 0
  /\ Concat(sChunks) = sBlob

\* C7: prepareFileChunks returns ceil(len/chunkSize) chunks, all of chunkSize
\* blocks but the last, which has len mod chunkSize blocks, or chunkSize when
\* chunkSize divides len; no chunk is empty.
C7_ChunkCountAndSizes ==
  spc = "split" =>
    /\ Len(sChunks) * sSize >= Len(sBlob)
    /\ Len(sBlob) > (Len(sChunks) - 1) * sSize \/ (Len(sBlob) = 0 /\ Len(sChunks) = 0)
    /\ \A i \in 1..Len(sChunks) :
         /\ i < Len(sChunks) => Len(sChunks[i]) = sSize
         /\ i = Len(sChunks) =>
              Len(sChunks[i]) = (IF Len(sBlob) % sSize = 0 THEN sSize ELSE Len(sBlob) % sSize)
         /\ Len(sChunks[i]) > 0

C7_Witness ==
  /\ spc = "split" /\ Len(sChunks) = 2 /\ Len(sBlob) = 2 * sSize
  /\ Len(sChunks[2]) = sSize

\* the length of the ciphertext stream encryptFile returns for n blocks of
\* plaintext: the IV, the ciphertext and one tag per AEAD call
StreamLength(n) ==
  n + IV_LENGTH
    + AUTH_TAG_SIZE * (IF n > STREAMING_LIMIT THEN CeilDiv(n, SEGMENT_SIZE) ELSE 1)

\* C8 (as the code has it): uploadFile cuts the ciphertext stream, not the
\* plaintext: a file of n blocks is uploaded in ceil(StreamLength(n) / c)
\* chunks, all of c blocks but the last, which holds the rest of the stream.
C8_ChunksOfCiphertext ==
  uf.kind # "none" =>
    LET n == Len(uf.file)
        total == CeilDiv(StreamLength(n), CHUNK_SIZE)
    IN  /\ Len(uf.chunks) = total
        /\ Len(uf.chunkStates) = total
        /\ \A i \in 1..Len(uf.chunks) :
             Len(uf.chunks[i]) =
               IF i < total THEN CHUNK_SIZE ELSE StreamLength(n) - (total - 1) * CHUNK_SIZE

\* a file of exactly two chunk sizes, uploaded to the end: three chunks, the
\* second a full one, the third the last IV_LENGTH + AUTH_TAG_SIZE blocks
C8_Witness ==
  /\ uf.kind = "upload" /\ Len(uf.file) = 2 * CHUNK_SIZE
  /\ Len(uf.chunks) = 3 /\ Len(uf.chunks[2]) = CHUNK_SIZE
  /\ Len(uf.chunks[3]) = IV_LENGTH + AUTH_TAG_SIZE
  /\ \A i \in 1..3 : uf.chunkStates[i].uploaded
  /\ \A i \in 0..2 : HasObject(server.chunks, uf.batch, i)

\* C8 (as the spec has it): a file of plaintext size n is uploaded in
\* ceil(n / c) chunks.
C8_ChunksOfPlaintext ==
  uf.kind = "upload" => Len(uf.chunks) = CeilDiv(Len(uf.file), CHUNK_SIZE)

\* C9: a resume sends no upload request for a chunk whose stored state was
\* completed when the resume was invoked.
C9_ResumeSkipsCompleted ==
  hist.resumeSent \cap hist.resumeFound = {}

\* the chunks a download collects: index 0, 1, ... up to the first index the
\* backend has no object for
RECURSIVE StoredChunks(_, _)
StoredChunks(batchId, chunkIndex) ==
  IF HasObject(server.chunks, batchId, chunkIndex)
  THEN <<GetObject(server.chunks, batchId, chunkIndex)>> \o StoredChunks(batchId, chunkIndex + 1)
  ELSE <<>>

\* C10: one file (of a size decryptChunkedFile can handle), some but not all
\* of its chunks completed, the page reloaded, the batch resumed from the
\* stored state and the resume finished: the chunks on the backend, in index
\* order, decrypt under the batch key to the file selected.
C10_ResumedUploadDecrypts ==
  \A u \in idb.uploads :
    ( /\ Len(hist.selected) = 1
      /\ Len(hist.selected[1].file) <= STREAMING_LIMIT
      /\ hist.resumed /\ hist.resumeFound # {}
      /\ Cardinality(hist.resumeFound)
           < CeilDiv(StreamLength(Len(hist.selected[1].file)), CHUNK_SIZE)
      /\ run.kind = "none" /\ WorkersQuiet
      /\ u.status = "completed" ) =>
        processDownloadDecrypt(StoredChunks(u.batchId, 0),
                               importKey(base64ToArrayBuffer(u.encryptionKey)))
          = Decrypted("ready", hist.selected[1].file)

\* the chunk indices the backend stores an object for
StoredIndices(batchId) ==
  {o.chunkIndex : o \in {p \in server.chunks : p.batchId = batchId}}

Range(s) == {s[i] : i \in 1..Len(s)}

\* C11: processDownload gives chunks to the decryption only when every
\* chunk stored for the batch was downloaded: the indices handed over are
\* the indices the backend stores, none missing, skipped, timed out or failed.
C11_AllChunksBeforeDecrypt ==
  rx.download.pc = "done" =>
    Range(rx.download.handed) = StoredIndices(rx.batchId)

\* C12: the buffers processDownload collects, and the sequence it passes to
\* decryptChunkedFile, are in strictly ascending chunk index order, whatever
\* the order the HEAD probes and the chunk requests complete in.
C12_AscendingOrder ==
  LET allChunks == rx.download.allChunks
  IN  /\ \A i, j \in 1..Len(allChunks) :
           i < j => allChunks[i].chunkIndex < allChunks[j].chunkIndex
      /\ rx.download.pc = "done" => rx.download.handed = Indices(allChunks)

\* three chunks decrypted to the file after the HEAD probes were answered
\* in the order 2, 0, 1
C12_Witness ==
  /\ rx.download.pc = "done" /\ rx.status = "ready"
  /\ rx.download.handed = <<0, 1, 2>>
  /\ rx.download.headOrder = <<2, 0, 1>>
  /\ rx.data = hist.selected[1].file

\* the ways a chunk request fails for a while: the timer, the network, a
\* server error
Transient(request) == request.thrown # "none" \/ request.status \in {500, 503}

\* C13: a chunk request that timed out or failed with a network or server
\* error is made again, and one such failure alone does not end the chunk
\* loop.
C13_FailedFetchRetried ==
  LET requests == rx.download.requests
      failed == {i \in 1..Len(requests) : Transient(requests[i])}
  IN  /\ rx.download.pc # "loop" =>
           \A i \in failed : \E j \in 1..Len(requests) :
              j # i /\ requests[j].chunkIndex = requests[i].chunkIndex
      /\ (Cardinality(failed) = 1 /\ Len(requests) \in failed) =>
           rx.download.pc = "loop"

\* the plaintext of the whole stream: the chunks joined, the IV taken from
\* the front, the rest decrypted and authenticated as one
WholeStream(encryptedChunks, key) ==
  LET stream == Concat(encryptedChunks)
  IN  AeadDecrypt(key, Slice(stream, 0, IV_LENGTH), Slice(stream, IV_LENGTH, Len(stream)))

\* C14: decryptChunkedFile and batchDecryptChunks either fail or return the
\* plaintext of the whole stream they were given; they never return what
\* only some of the chunks decrypt to.
C14_NoPartialPlaintext ==
  cpc \in {"decrypted", "done"} =>
    /\ decryptChunkedFile(cChunks, cKey).ok =>
         decryptChunkedFile(cChunks, cKey) = WholeStream(cChunks, cKey)
    /\ batchDecryptChunks(cChunks, cKey).ok =>
         batchDecryptChunks(cChunks, cKey) = WholeStream(cChunks, cKey)

\* C15: when no chunk of the file has used up its MAX_RETRIES attempts (every
\* failure was followed by the backend being able to store the chunk),
\* uploadFile does not end in an error, whatever the order the workers run in.
C15_TransientFailuresRetried ==
  (uf.kind = "upload" /\ run.kind = "none" /\ hist.pauses = 0 /\ hist.restarts = 0) =>
    \A i \in 1..Len(ui.files) :
      (ui.files[i].id = uf.fileId /\ ui.files[i].status = "error") =>
         \E k \in 1..Len(uf.chunkStates) : uf.chunkStates[k].attempts >= MAX_RETRIES

\* the workers whose chunk request has not been settled in processNextChunk
InFlight == {w \in Workers : workers[w].pc = "uploading"}

C18_FailedBatchPersisted ==
  (uf.kind = "upload" /\ run.kind = "none") =>
    \A i \in 1..Len(ui.files) :
      (ui.files[i].id = uf.fileId /\ ui.files[i].status = "error") =>
         /\ HasUploadState(idb.uploads, uf.batch)
         /\ getUploadState(idb.uploads, uf.batch).status = "error"

\* C17: between handlePauseUpload and the next resume no chunk request is
\* in flight (those that were have been aborted, none is started) and the
\* UploadState stored for the batch has status 'paused'.
C17_PauseStopsUploads ==
  (ui.isPaused /\ ui.batchId # 0) =>
    /\ \A w \in Workers : workers[w].xhr \notin {"sent", "ok"}
    /\ HasUploadState(idb.uploads, ui.batchId) =>
         getUploadState(idb.uploads, ui.batchId).status = "paused"

\* the objects batchId/0 .. batchId/(n-1) of the backend joined in index
\* order, and whether all of them are there
ObjectsJoined(batchId, n) ==
  Concat([k \in 1..n |-> GetObject(server.chunks, batchId, k - 1)])
HasObjects(batchId, n) ==
  \A k \in 1..n : HasObject(server.chunks, batchId, k - 1)

\* C19: once handleUpload has uploaded every file of the batch, the objects
\* stored for each file, joined in chunk index order, are the ciphertext
\* stream encryptFile produced for that file (under the batch key and one of
\* the IVs drawn): no file's chunks were replaced by another file's.
C19_EveryFileStored ==
  ( /\ run.kind = "none" /\ ~hist.resumed /\ hist.restarts = 0
    /\ ui.shareLink # NoShareLink
    /\ \A i \in 1..Len(ui.files) : ui.files[i].status = "completed" ) =>
      \A p \in 1..Len(hist.selected) : \E n \in 1..rng.ivs :
        LET stream == encryptFile(hist.selected[p].file, ui.encryptionKey,
                                  <<DataBlock(n)>>).blob
            total == CeilDiv(Len(stream), CHUNK_SIZE)
        IN  /\ HasObjects(ui.batchId, total)
            /\ ObjectsJoined(ui.batchId, total) = stream

\* the chunk (batchId, fileId, chunkIndex) whose request was answered 2xx and
\* whose completion processNextChunk is recording in this step
AcknowledgedNow(c) ==
  \E w \in Workers :
    /\ workers[w].xhr = "ok"
    /\ c.batchId = uf.batch /\ c.fileId = uf.fileId
    /\ c.chunkIndex = workers[w].currentIndex

StoredUploaded(chunks, c) ==
  \E d \in chunks : SameChunkKey(c, d) /\ d.uploaded

\* a stored ChunkState becomes uploaded only when the backend acknowledged
\* that chunk of that file
UploadedOnlyOnAck ==
  \A d \in idb'.chunks :
    (d.uploaded /\ ~StoredUploaded(idb.chunks, d)) => AcknowledgedNow(d)

\* a stored ChunkState that is uploaded stays stored and uploaded
UploadedNeverReset ==
  \A c \in idb.chunks : c.uploaded => StoredUploaded(idb'.chunks, c)

\* C20: in the persisted store a ChunkState has uploaded = true exactly for
\* the chunks the backend acknowledged: no step sets it without the 2xx
\* answer for that (batchId, fileId, chunkIndex), and no step sets it back to
\* false or removes the record afterwards.
C20_UploadedIffAcknowledged ==
  [][UploadedOnlyOnAck /\ UploadedNeverReset]_vars

\* the metadata array handleUpload built for the files selected
SelectedMetadata == [i \in 1..Len(hist.selected) |-> FileMetadata(hist.selected[i])]

\* C21: the share link handleUpload produced, opened as it is (in any
\* browser), gives the download page the batch id, the base64 text of the key
\* and the metadata array of the upload that produced it: the batch the
\* backend created, the key text uploadFile stored for that batch (the
\* page's key while that batch is the page's), the files selected.
C21_ShareLinkRoundTrip ==
  (rx.status # "closed" /\ rx.search = ui.shareLink) =>
    /\ rx.batchId \in server.batches
    /\ HasUploadState(idb.uploads, rx.batchId)
    /\ rx.keyBase64 = getUploadState(idb.uploads, rx.batchId).encryptionKey
    /\ rx.batchId = ui.batchId =>
         rx.keyBase64 = arrayBufferToBase64(exportKey(ui.encryptionKey))
    /\ rx.metadata = SelectedMetadata

C21_Witness ==
  /\ rx.status = "idle" /\ rx.search = ui.shareLink
  /\ rx.storedMetadata = 0
  /\ Len(rx.metadata) = 2 /\ rx.metadata = SelectedMetadata
  /\ rx.batchId = 1 /\ rx.keyBase64 # 0

\* C22: whatever of key and meta is missing or does not decode, the mount
\* effect ends normally with the other parameters decoded: the batch id is the
\* batch parameter, the key text is the decoded key parameter or stays empty,
\* a meta parameter that decodes is the metadata even when localStorage holds
\* an entry for the batch, and without a meta parameter the metadata is the
\* localStorage entry of the batch.
C22_DecodingTolerant ==
  rx.status # "closed" =>
    LET search == rx.search
        keyDecodes == search.key # 0 /\ DecodeKey(search.key) # BadDecode
        metaDecodes == search.meta # 0 /\ ~DecodeMetadata(search.meta).threw
    IN  /\ rx.status = "idle"
        /\ rx.batchId = search.batch
        /\ rx.keyBase64 = IF keyDecodes THEN DecodeKey(search.key) ELSE 0
        /\ metaDecodes => rx.metadata = DecodeMetadata(search.meta).value
        /\ (search.meta = 0 /\ rx.storedMetadata # 0) =>
             rx.metadata = JSONparse(rx.storedMetadata).value

C22_Witness ==
  /\ rx.status = "idle"
  /\ rx.batchId # 0 /\ rx.search.key # 0 /\ rx.keyBase64 = 0
  /\ rx.storedMetadata # 0
  /\ rx.metadata = OtherMetadata
  /\ JSONparse(rx.storedMetadata).value = SelectedMetadata
  /\ SelectedMetadata # OtherMetadata

\* the delays UploadObject sleeps before attempts 2, 3 and 4
Backoff == <<firstRetryDelay, 2 * firstRetryDelay, 4 * firstRetryDelay>>

\* C23: a chunk upload request whose store fails is retried by the backend:
\* it is answered with an error only after maxRetries + 1 PutObject attempts,
\* and the attempts after the first were preceded by sleeps of 2, 4 and 8
\* seconds.
C23_ChunkStoreRetried ==
  \A a \in be.answered :
    (a.handler = "UploadChunk" /\ a.storage = "PutObject") =>
      /\ a.attempts = maxRetries + 1
      /\ a.slept = Backoff

\* C24: GET /api/download/<batch>/<index> answers 200 with the stored bytes
\* when the object exists, and 404 only when it does not: a storage failure
\* on an existing object is never answered 404.
C24_NotFoundOnlyWhenAbsent ==
  \A a \in be.answered :
    a.handler = "DownloadChunk" =>
      /\ a.status = 404 => ~a.existed
      /\ (a.existed /\ a.storage = "none") =>
           a.status = 200 /\ a.body = a.stored

OlderThanRetention(upload, now) == upload.updatedAt < now - RETENTION_WINDOW

\* C25: a cleanupOldUploads call deletes every upload state last updated
\* more than the retention window ago together with all chunk states of its
\* batch, and leaves every other upload state and its chunk states in place.
C25_RetentionCleanup ==
  [][st'.cleanups # st.cleanups =>
       \A upload \in st.uploads :
         IF OlderThanRetention(upload, st.now)
         THEN /\ ~HasUploadState(st'.uploads, upload.batchId)
              /\ getAllChunks(st'.chunks, upload.batchId) = {}
         ELSE /\ upload \in st'.uploads
              /\ getAllChunks(st'.chunks, upload.batchId)
                   = getAllChunks(st.chunks, upload.batchId)]_vars

\* the fields written one after the other, spread over a record
RECURSIVE Replay(_, _)
Replay(record, writes) ==
  IF writes = <<>> THEN record
  ELSE Replay(Merge(record, Head(writes).state), Tail(writes))

\* the record a chunk key must hold after the writes made to it: every field
\* has the value of the last call that wrote it
ChunkWrites(c) ==
  SelectSeq(st.writes, LAMBDA w : /\ w.store = "chunk-state" /\ w.batchId = c.batchId
                                  /\ w.fileId = c.fileId /\ w.chunkIndex = c.chunkIndex)
ExpectedChunk(c) == Replay(Head(ChunkWrites(c)).state, Tail(ChunkWrites(c)))

\* the same for an upload state, from the writes made since it was created;
\* updatedAt is the time of the last of them
UploadWrites(u) ==
  SelectSeq(st.writes, LAMBDA w : /\ w.store = "upload-state" /\ w.batchId = u.batchId
                                  /\ w.at >= u.createdAt)
ExpectedUpload(u) ==
  LET writes == UploadWrites(u)
      default == [batchId |-> u.batchId, fileIds |-> <<>>, encryptionKey |-> 0,
                  totalSize |-> 0, uploadedSize |-> 0, status |-> "pending",
                  createdAt |-> Head(writes).at, updatedAt |-> Head(writes).at,
                  metadata |-> <<>>]
  IN  [Replay(default, writes) EXCEPT !.updatedAt = writes[Len(writes)].at]

UploadStatesComplete == \A u \in st.uploads : u = ExpectedUpload(u)
ChunkStatesComplete == \A c \in st.chunks : c = ExpectedChunk(c)

\* C30: once the calls in progress have finished, every stored upload state
\* and chunk state holds, field by field, what the last call that wrote the
\* field wrote: no write of saveUploadState, saveChunkState or
\* addUploadedChunk is lost to a concurrent call for the same key.
C30_NoLostUpdate ==
  st.calls = {} => UploadStatesComplete /\ ChunkStatesComplete

-----------------------------------------------------------------------------
(* The per-chunk and per-batch state machines                               *)

\* a step inside one uploadFile call: the same file of the same batch before
\* and after
SameUploadFile ==
  /\ uf.kind # "none" /\ uf'.kind = uf.kind
  /\ uf'.batch = uf.batch /\ uf'.fileId = uf.fileId
  /\ Len(uf'.chunkStates) = Len(uf.chunkStates)
  /\ run.phase = "workers"

\* the status changes the chunk states are documented to make
ChunkTransitions ==
  {<<"pending", "uploading">>, <<"uploading", "completed">>,
   <<"uploading", "error">>, <<"error", "pending">>}

\* processNextChunk's catch block writes 'error', saves it, and writes
\* 'pending' before it gives control back: uploading -> error -> pending,
\* the 'error' seen in the saved ChunkState
ViaError(k) ==
  /\ uf.chunkStates[k].status = "uploading" /\ uf'.chunkStates[k].status = "pending"
  /\ \E s \in idb'.chunks :
       /\ s.fileId = uf.fileId /\ s.chunkIndex = k - 1
       /\ s.status = "error" /\ s.attempts = uf.chunkStates[k].attempts + 1

ChunkStatusStep(k) ==
  \/ uf'.chunkStates[k].status = uf.chunkStates[k].status
  \/ <<uf.chunkStates[k].status, uf'.chunkStates[k].status>> \in ChunkTransitions
  \/ ViaError(k)

\* every status change of a chunk state is one of ChunkTransitions
ChunkStatusMachine ==
  [][SameUploadFile => \A k \in 1..Len(uf.chunkStates) : ChunkStatusStep(k)]_vars

\* a chunk state that is 'completed' stays 'completed'
CompletedChunkStays ==
  [][SameUploadFile =>
       \A k \in 1..Len(uf.chunkStates) :
         uf.chunkStates[k].status = "completed" =>
           uf'.chunkStates[k].status = "completed"]_vars

\* no two workers are between sending and settling a request for one chunk
OneWorkerPerChunk ==
  \A v, w \in InFlight : v # w => workers[v].currentIndex # workers[w].currentIndex

\* C26: during an upload run the status of a chunk state changes only along
\* pending->uploading, uploading->completed, uploading->error and
\* error->pending; a 'completed' chunk stays 'completed'; no chunk is being
\* uploaded by two workers at once.
C26_ChunkStateMachine ==
  ChunkStatusMachine /\ CompletedChunkStays /\ []OneWorkerPerChunk

\* the status changes the stored UploadState of a batch is documented to make
BatchTransitions ==
  {<<"pending", "uploading">>, <<"uploading", "paused">>, <<"uploading", "completed">>,
   <<"uploading", "error">>, <<"paused", "uploading">>}

\* the batches that have an UploadState in the store
StoredBatches(uploads) == {u.batchId : u \in uploads}

\* the status stored for batch b before and after the step
BatchStatusStep(b) ==
  LET before == getUploadState(idb.uploads, b).status
      after == getUploadState(idb'.uploads, b).status
  IN  before = after \/ <<before, after>> \in BatchTransitions

\* a stored status 'paused' is not overwritten by 'completed'
PausedNotCompleted ==
  [][\A b \in StoredBatches(idb.uploads) \cap StoredBatches(idb'.uploads) :
       getUploadState(idb.uploads, b).status = "paused" =>
         getUploadState(idb'.uploads, b).status # "completed"]_vars

\* a stored status 'completed' is not overwritten
CompletedBatchStays ==
  [][\A b \in StoredBatches(idb.uploads) \cap StoredBatches(idb'.uploads) :
       getUploadState(idb.uploads, b).status = "completed" =>
         getUploadState(idb'.uploads, b).status = "completed"]_vars

\* C27: the status of the stored UploadState of a batch changes only along
\* pending->uploading, uploading->paused, uploading->completed,
\* uploading->error and paused->uploading; 'paused' is never followed
\* directly by 'completed', and 'completed' is never left.
C27_BatchStateMachine ==
  [][\A b \in StoredBatches(idb.uploads) \cap StoredBatches(idb'.uploads) :
       BatchStatusStep(b)]_vars

\* the chunk states stored before the step that are stored after it too,
\* each with the state stored after it under the same key
KeptChunkStates ==
  {<<c, d>> \in idb.chunks \X idb'.chunks : SameChunkKey(c, d)}

\* the step settles, in processNextChunk's catch, a request of the chunk of
\* state c that ended as xhr tells: "failed" (network, timeout, status
\* outside 2xx) or "aborted" (xhr.abort() by Pause)
Settles(c, xhr) ==
  \E w \in Workers :
    /\ workers[w].pc = "uploading" /\ workers[w].xhr = xhr
    /\ workers'[w].pc # "uploading"
    /\ uf.batch = c.batchId /\ uf.fileId = c.fileId
    /\ workers[w].currentIndex = c.chunkIndex

\* a request aborted by Pause leaves the attempts of its chunk as they were
AbortKeepsAttempts ==
  [][\A p \in KeptChunkStates :
       Settles(p[1], "aborted") => p[2].attempts = p[1].attempts]_vars

\* the stored attempts of a chunk are never reset
AttemptsNeverReset ==
  [][\A p \in KeptChunkStates : p[2].attempts >= p[1].attempts]_vars

\* C28: the attempts stored for a chunk change only by one, and only when a
\* request of that chunk failed for a network, timeout or server error:
\* a request aborted by Pause does not count, and Resume does not reset.
C28_AttemptsPreserved ==
  [][\A p \in KeptChunkStates :
       p[2].attempts # p[1].attempts =>
         p[2].attempts = p[1].attempts + 1 /\ Settles(p[1], "failed")]_vars

\* the chunks of the file being uploaded whose attempts are used up
PermanentlyFailed ==
  {k \in 1..Len(uf.chunkStates) : uf.chunkStates[k].attempts >= MAX_RETRIES}

\* uploadFile's failedChunks is the number of chunks whose attempts are used up
FailedChunksCounted ==
  uf.kind # "none" => uf.failedChunks = Cardinality(PermanentlyFailed)

\* a worker has thrown the too-many-failures error exactly when more chunks
\* than FailureThreshold allows have used up their attempts
AbortIffOverThreshold ==
  uf.kind # "none" =>
    ((\E w \in Workers : workers[w].pc = "threw")
       <=> Cardinality(PermanentlyFailed) > FailureThreshold(Len(uf.chunks)))

\* when every worker has left its loop, each chunk that has attempts left
\* has been uploaded
RequeuedChunkUploaded ==
  (uf.kind = "upload" /\ \A w \in Workers : workers[w].pc = "done") =>
    \A k \in 1..Len(uf.chunkStates) :
      uf.chunkStates[k].attempts < MAX_RETRIES =>
        uf.chunkStates[k].status = "completed" /\ uf.chunkStates[k].uploaded

\* C29: a chunk is permanently failed once its attempts reach MAX_RETRIES;
\* uploadFile throws the too-many-failures error when, and only when, the
\* number of such chunks exceeds min(5, floor(0.1 * N)); a failed chunk with
\* attempts left is requeued and uploaded again.
C29_FailureThreshold ==
  FailedChunksCounted /\ AbortIffOverThreshold /\ RequeuedChunkUploaded

-----------------------------------------------------------------------------
(* The registry of chunk requests, the share link, the end of uploadFile    *)

\* the workers whose chunk request has been sent and has not ended
RequestOpen == {w \in InFlight : workers[w].xhr \in {"sent", "ok"}}

\* every request that has not ended is registered under its own xhr
EveryRequestRegistered ==
  \A w \in RequestOpen :
    XhrKey(uf.fileId, workers[w].currentIndex, w) \in ui.activeXhrs

\* every entry belongs to a request processNextChunk has not settled
OnlyRequestsRegistered ==
  \A e \in ui.activeXhrs :
    /\ e.xhr \in InFlight
    /\ e.fileId = uf.fileId /\ e.chunkIndex = workers[e.xhr].currentIndex

\* C31: activeXhrs holds an entry for exactly the chunk requests in flight:
\* each of them is registered, each entry is removed when its request ends,
\* and the registry is empty when no request is in flight.
C31_RegistryIsInFlight ==
  uf.kind # "none" =>
    /\ EveryRequestRegistered
    /\ OnlyRequestsRegistered
    /\ InFlight = {} => ui.activeXhrs = {}

\* the step sets the share link
LinkPublished == ui'.shareLink # ui.shareLink /\ ui'.shareLink # NoShareLink

\* the chunks uploadFile cuts a file of n blocks into
ChunksOfFile(n) == CeilDiv(StreamLength(n), CHUNK_SIZE)

\* the backend has answered a request for every chunk of every file selected
\* by storing it under the batch
EveryChunkAcknowledged(batchId) ==
  \A i \in 1..Len(hist.selected) :
    \A k \in 1..ChunksOfFile(Len(hist.selected[i].file)) :
      /\ Request("POST", "/api/upload", batchId, k - 1, NoQuery) \in server.log
      /\ HasObject(server.chunks, batchId, k - 1)

FileCompleted ==
  /\ uf.kind # "none"
  /\ \E i \in 1..Len(ui.files) :
       /\ i <= Len(ui'.files)
       /\ ui.files[i].id = uf.fileId
       /\ ui.files[i].status # "completed" /\ ui'.files[i].status = "completed"
  /\ HasUploadState(idb'.uploads, uf.batch)
  /\ getUploadState(idb'.uploads, uf.batch).status = "completed"

\* every chunk state of uploadFile's chunkStates array is completed
ChunkStatesCompleted ==
  \A k \in 1..Len(uf.chunkStates) :
    uf.chunkStates[k].status = "completed" /\ uf.chunkStates[k].uploaded

\* every chunk state stored for the file is completed
StoredChunkStatesCompleted ==
  \A k \in 1..Len(uf.chunkStates) :
    \E s \in idb'.chunks :
      /\ SameChunkKey(s, uf.chunkStates[k])
      /\ s.status = "completed" /\ s.uploaded

\* the stored chunk states at the end of a run during which Resume may have
\* been clicked
StoredCompletedAlways == [][FileCompleted => StoredChunkStatesCompleted]_vars

UploadFileAborted ==
  /\ uf.kind # "none"
  /\ \E w \in Workers : workers[w].pc = "threw"
  /\ \E i \in 1..Len(ui.files) :
       ui.files[i].id = uf.fileId /\ ui.files[i].status = "error"

\* worker w sends a chunk request in this step
StartsRequest(w) ==
  /\ workers[w].pc # "uploading" /\ workers'[w].pc = "uploading"
  /\ uf'.fileId = uf.fileId /\ uf'.batch = uf.batch

\* C34: once uploadFile has failed with the too-many-failures error of one
\* worker, no worker starts a further chunk request for that file.
C34_AbortStopsPool ==
  [][UploadFileAborted => \A w \in Workers : ~StartsRequest(w)]_vars

\* a chunk whose upload has succeeded in this run is not sent again
NoResendAfterSuccess ==
  [][\A w \in Workers :
       StartsRequest(w) => ~uf.chunkStates[workers'[w].currentIndex + 1].uploaded]_vars

\* a chunk with a request in flight is not handed to a second worker
NoSecondDispatch ==
  [][\A w \in Workers :
       StartsRequest(w) =>
         \A v \in InFlight : workers[v].currentIndex # workers'[w].currentIndex]_vars

\* C35: within one upload run no chunk index is handed to a worker while
\* another worker's request for it is in flight, and a chunk whose upload
\* has succeeded is not sent again, whatever the order in which requests
\* succeed and fail.
C35_NoDuplicateDispatch == NoSecondDispatch /\ NoResendAfterSuccess

\* uploadFile, once its workers are started, comes to its end
UploadFileTerminates == (run.phase = "workers") ~> (run.phase # "workers")

\* RECURSIVE sum of the retries the chunk states have asked for: each failure
\* that leaves attempts under MAX_RETRIES is followed by chunkIndex--
RECURSIVE Requeued(_)
Requeued(chunkStates) ==
  IF chunkStates = <<>> THEN 0
  ELSE Min(Head(chunkStates).attempts, MAX_RETRIES - 1) + Requeued(Tail(chunkStates))

\* the turns of the dispatch 'currentIndex = chunkIndex++' so far in this run
Dispatched == uf.chunkIndex + Requeued(uf.chunkStates)

\* Dispatched counts the dispatches: a step that sends a request adds one,
\* no step of the run takes one away
DispatchedCounts ==
  [][SameUploadFile =>
       /\ Dispatched' >= Dispatched
       /\ \A w \in Workers : StartsRequest(w) => Dispatched' = Dispatched + 1]_vars

\* at most MAX_RETRIES requests per chunk on average
TotalRequestsBounded ==
  uf.kind # "none" => Dispatched <= MAX_RETRIES * Len(uf.chunks)

\* the requests for chunk k that have failed or are in flight
RequestsFor(k) ==
  uf.chunkStates[k].attempts
    + Cardinality({w \in InFlight : workers[w].currentIndex = k - 1})

\* no chunk is sent more than MAX_RETRIES times
EachChunkBounded ==
  uf.kind # "none" =>
    \A k \in 1..Len(uf.chunkStates) : RequestsFor(k) <= MAX_RETRIES

\* C36: when every chunk request ends (success, failure or timeout),
\* uploadFile terminates, and no chunk of the file is sent more than
\* MAX_RETRIES times.
C36_UploadTerminates == UploadFileTerminates /\ []EachChunkBounded

\* processDownload is between its first request and its last state update
Downloading == rx.download.pc \in {"scan", "loop", "collected"}

\* a started processDownload ends in 'ready' or 'error'
DownloadEnds == Downloading ~> (~Downloading /\ rx.status \in {"ready", "error"})

\* the step is one turn of the chunk loop
LoopTurn ==
  /\ rx.download.pc = "loop"
  /\ Len(rx'.download.requests) = Len(rx.download.requests) + 1

\* a turn moves chunkIndex on by one, leaves the loop or throws
TurnAdvances ==
  [][LoopTurn =>
       \/ /\ rx'.download.chunkIndex = rx.download.chunkIndex + 1
          /\ rx'.download.pc \in {"loop", "collected"}
       \/ /\ rx'.download.chunkIndex = rx.download.chunkIndex
          /\ rx'.download.pc \in {"collected", "failed"}]_vars

\* the loop ran at most CHUNK_LOOP_LIMIT times
TurnsBounded ==
  /\ Len(rx.download.requests) <= CHUNK_LOOP_LIMIT
  /\ rx.download.chunkIndex <= CHUNK_LOOP_LIMIT
  /\ rx.download.pc = "loop" => rx.download.chunkIndex < CHUNK_LOOP_LIMIT

Deletes(b) == st'.deletes = Append(st.deletes, b)

\* after the call neither the upload state nor any chunk state of b is stored
BatchRemoved(b) ==
  Deletes(b) =>
    /\ ~HasUploadState(st'.uploads, b)
    /\ getAllChunks(st'.chunks, b) = {}

\* the upload state of b is gone after the call
UploadStateRemoved(b) == Deletes(b) => ~HasUploadState(st'.uploads, b)

\* the records of every other batch are the ones stored before the call
OtherBatchesKept(b) ==
  Deletes(b) =>
    /\ {u \in st'.uploads : u.batchId # b} = {u \in st.uploads : u.batchId # b}
    /\ {c \in st'.chunks : c.batchId # b} = {c \in st.chunks : c.batchId # b}

DeleteRemovesBatch == [][\A b \in StoreBatches : BatchRemoved(b)]_vars
DeleteRemovesUploadState == [][\A b \in StoreBatches : UploadStateRemoved(b)]_vars
DeleteKeepsOthers == [][\A b \in StoreBatches : OtherBatchesKept(b)]_vars

\* C38: deleteUploadState(b) removes the UploadState of batch b and every
\* ChunkState of batch b, and leaves the records of all other batches as they
\* were.
C38_DeleteRemovesBatch ==
  [][\A b \in StoreBatches : BatchRemoved(b) /\ OtherBatchesKept(b)]_vars

\* a step in which a router takes a chunk upload request
Receives == be'.requests = be.requests + 1 /\ be'.request.via # "none"

\* the index as a reader of the request sees it: not a decimal integer, or a
\* negative one
BadChunkIndex(chunkIndexStr) ==
  Atoi(chunkIndexStr).err \/ Atoi(chunkIndexStr).value < 0

\* a request with a bad index or an empty part is answered 400 at once,
\* nothing is handed to storage and the objects stay as they were
RejectedStep ==
  (Receives /\ (BadChunkIndex(be'.request.chunkIndexStr) \/ be'.request.data = 0)) =>
    /\ be'.request.status = 400
    /\ be'.call = NoCall
    /\ be'.objects = be.objects

\* a request that passes is handed to storage under its batch and index, and
\* taking it changes no object
AcceptedStep ==
  (Receives /\ ~BadChunkIndex(be'.request.chunkIndexStr) /\ be'.request.data # 0) =>
    /\ be'.request.status = 0
    /\ be'.call.batchId = be'.request.batchId
    /\ be'.call.chunkIndex = Atoi(be'.request.chunkIndexStr).value
    /\ be'.call.data = be'.request.data
    /\ be'.objects = be.objects

\* whenever the objects change, the bytes of the request in hand are put
\* under the key of its batch and index, every other object staying as it was
KeyedStore ==
  (be.request.via # "none" /\ be'.objects # be.objects) =>
    be'.objects = StoreObject(be.objects, be.request.batchId,
                              Atoi(be.request.chunkIndexStr).value, be.request.data)

\* and only a request that passed validation changes the objects
StoredStep ==
  /\ KeyedStore
  /\ (be.request.via # "none" /\ be'.objects # be.objects) =>
       (~BadChunkIndex(be.request.chunkIndexStr) /\ be.request.data # 0)

\* the same with the requests of one router only
ViaRouter(via) == be'.request.via = via /\ be.request.via \in {"none", via}
ControllersValidate ==
  [][ViaRouter("controllers") => (RejectedStep /\ AcceptedStep /\ StoredStep)]_vars
ApiValidates ==
  [][ViaRouter("api") => (RejectedStep /\ AcceptedStep /\ StoredStep)]_vars
NonIntegerRejected ==
  [][(Receives /\ Atoi(be'.request.chunkIndexStr).err) =>
       (be'.request.status = 400 /\ be'.call = NoCall /\ be'.objects = be.objects)]_vars
EmptyChunkRejected ==
  [][(Receives /\ be'.request.data = 0) =>
       (be'.request.status = 400 /\ be'.call = NoCall /\ be'.objects = be.objects)]_vars
StoredUnderOwnKey == [][AcceptedStep /\ KeyedStore]_vars

\* C39: a chunk upload request with a non-integer or negative chunk index, or
\* with an empty chunk, is answered 400 and leaves object storage unchanged;
\* a request that passes validation stores its bytes under exactly the key
\* {batchId}/{chunkIndex}.
C39_UploadValidated == [][RejectedStep /\ AcceptedStep /\ StoredStep]_vars

====
